---- MODULE Spec2Model ----
\* State-machine model of dropconvert-wasm's conversion core:
\*   hooks/useFFmpeg.ts          engine owner: load, execWithHardTimeout,
\*                               convertImage (MP4 and GIF ladders), cancel, cleanup
\*   hooks/useBatchConversion.ts batch queue hook
\*   lib/queue/conversionQueue.ts ConversionQueue
\*
\* JavaScript runs every callback to completion, so one action is the code
\* between two suspension points. A continuation that the runtime runs as a
\* microtask (the code after an await whose promise has settled) is a separate
\* action that takes priority over every event of the environment: those are
\* guarded by ~MicrotaskPending.
EXTENDS Integers, Sequences, FiniteSets, TLC

\* ---------------------------------------------------------------- bounds
MaxConv == 2        \* convertImage calls that may be in flight together
MaxEngines == 2     \* FFmpeg instances that may exist together
MaxLoads == 1       \* load attempts that may be in flight together
MaxItems == 2       \* files ever added to the queue
MaxLoops == 2       \* processQueue invocations that may be in flight together
MaxClock == 1       \* largest addedAt, counted from the oldest reading that matters
MaxEnqueued == 26   \* files ever offered to a queue that is filled up to its limit
MaxBatch == 7       \* files of one addFiles call when the queue is filled up
MaxRequests == 2    \* preprocessFileInWorker calls
MaxWorkers == 2     \* preprocessing workers ever created

\* ---------------------------------------------------------------- program constants
MAX_QUEUE_SIZE == 20

Conv == 1..MaxConv
Eng == 1..MaxEngines
LoadId == 1..MaxLoads
Loop == 1..MaxLoops
ItemId == 1..MaxItems

\* navigator.deviceMemory; 0 stands for "not reported"
DeviceMemories == {0, 2, 4}

VARIABLES
  \* ---- useFFmpeg closure
  ffmpegRef,              \* 0 = null, else the engine instance
  didAttachListenersRef,
  activeConvertRef,
  abortControllerRef,     \* 0 = null, else the conversion whose controller it is
  loadPromiseRef,         \* 0 = null, else the load attempt
  isLoaded,
  isLoading,
  isConverting,
  deviceMemory,
  \* ---- FFmpeg instances (library objects)
  engines,
  \* ---- load attempts (the async closure p of load())
  loads,
  \* ---- convertImage calls
  conv,
  \* ---- useBatchConversion / ConversionQueue
  items,                  \* ConversionQueue.items, in Map insertion order
  idCounter,
  isProcessing,
  isPaused,
  currentItemId,
  loops,
  \* ---- the progress signal of useFFmpeg, in hundredths, and its throttle
  progress,
  pendingProgress,        \* -1 = null
  progressRafId,          \* TRUE: an animation frame is requested
  \* ---- cacheManager: the object store 'assets' of the database 'ffmpeg-cache'
  store,                  \* version -> record
  cacheCall,              \* observation: the last call of the cache manager
  \* ---- lib/preprocessing/workerPreprocess: the module's state and its worker
  workerRef,              \* 0 = null, else the worker
  pending,                \* the ids of the map 'pending'
  nextId,
  workers,                \* the Worker objects created so far
  requests,               \* the preprocessFileInWorker calls, by id
  inbox                   \* result messages posted by a worker, not yet delivered

engineVars == <<ffmpegRef, didAttachListenersRef, activeConvertRef, abortControllerRef,
                loadPromiseRef, isLoaded, isLoading, isConverting, deviceMemory,
                engines, loads, conv>>
queueVars == <<items, idCounter, isProcessing, isPaused, currentItemId, loops>>
progressVars == <<progress, pendingProgress, progressRafId>>
cacheVars == <<store, cacheCall>>
preprocessVars == <<workerRef, pending, nextId, workers, requests, inbox>>
vars == <<engineVars, queueVars, progressVars, cacheVars, preprocessVars>>

\* ---------------------------------------------------------------- errors
\* Error messages, by the substring tests the code applies to them.
ErrCancelled == "Cancelled"     \* 'Conversion cancelled by user'
ErrStuck == "Stuck"             \* 'FFmpeg appears stuck during X. Worker was terminated.'
ErrNotLoaded == "NotLoaded"     \* 'ffmpeg is not loaded, ...' / 'FFmpeg is not loaded yet. ...'
ErrWasmAbort == "WasmAbort"     \* 'Aborted()', 'out of memory', ...
ErrTerminated == "Terminated"   \* 'called FFmpeg.terminate()'
ErrMp4Exit == "Mp4Exit"         \* 'FFmpeg failed ... during MP4 video conversion'
ErrMp4Empty == "Mp4Empty"       \* 'MP4 output is empty. ...'
ErrGifExit == "GifExit"         \* 'FFmpeg failed ... during GIF conversion'
ErrGifExitOom == "GifExitOom"   \* the same with the ' ... ran out of memory ...' hint
ErrFs == "FsError"              \* readFile of a missing file
ErrLoad == "LoadError"          \* download / init failure or timeout
ErrReload == "ReloadFailed"     \* 'FFmpeg failed to reload after a crash. ...'
ErrExec == "ExecError"          \* any other rejection of ffmpeg.exec

IsWorkerTerminated(e) == e = ErrStuck
IsFfmpegNotLoadedError(e) == e = ErrNotLoaded
IsLikelyWasmAbort(e) == e \in {ErrWasmAbort, ErrGifExitOom}
IsCancelledByUser(e) == e = ErrCancelled

\* convertImage's catch: the engine error code it records for an error
ClassifyEngineError(e) ==
  IF IsWorkerTerminated(e) THEN "exec-timeout"
  ELSE IF IsFfmpegNotLoadedError(e) THEN "not-loaded"
  ELSE IF IsLikelyWasmAbort(e) THEN "wasm-abort"
  ELSE "unknown"

\* the errors after which convertImage's catch terminates the engine
IsEngineLost(e) == IsWorkerTerminated(e) \/ IsFfmpegNotLoadedError(e) \/ IsLikelyWasmAbort(e)

\* the GIF ladder's test for "reload and go on with a smaller size"
IsRecoverableGif(e) == IsWorkerTerminated(e) \/ IsFfmpegNotLoadedError(e) \/ IsLikelyWasmAbort(e)
\* the MP4 ladder's test for "reload and run mpeg4"
IsRecoverableMp4(e) == IsWorkerTerminated(e)

\* ---------------------------------------------------------------- engine instances
\* One FFmpeg object of the library: its worker, its loaded flag, the number of
\* progress/log subscriptions attached to it, the terminate() calls it has
\* received and the two output files of its virtual file system.
FreshEngine == [worker |-> FALSE, loaded |-> FALSE, listeners |-> 0, termCalls |-> 0,
                mp4Out |-> "absent", gifOut |-> "absent"]

EngineReferenced(e) ==
  \/ ffmpegRef = e
  \/ \E l \in LoadId : loads[l].pc # "free" /\ loads[l].eng = e
  \/ \E c \in Conv : conv[c].pc # "idle" /\ conv[c].eng = e

FreeEngines == {e \in Eng : ~EngineReferenced(e)}
NewEngineId == CHOOSE e \in FreeEngines : \A f \in FreeEngines : e <= f

\* Object identity. The references to FFmpeg instances are ffmpegRef, the
\* local variable of each load attempt and the local variable of each
\* conversion, in this order. An instance that none of them holds is out of
\* the program's reach and leaves the model; the instances that remain are
\* numbered in the order of the first reference that holds them, so that a
\* state does not depend on which slot an instance happened to get.
Roles(ref, lds, cvs) ==
  <<ref>> \o [l \in 1..MaxLoads |-> lds[l].eng] \o [c \in 1..MaxConv |-> cvs[c].eng]

RECURSIVE Distinct(_, _)
Distinct(r, acc) ==
  IF r = <<>> THEN acc
  ELSE Distinct(Tail(r),
                IF Head(r) = 0 \/ (\E i \in 1..Len(acc) : acc[i] = Head(r))
                THEN acc ELSE Append(acc, Head(r)))

Renamed(e, ord) == IF e = 0 THEN 0 ELSE CHOOSE i \in 1..Len(ord) : ord[i] = e

\* the next state's references and instances
Commit(ref, engs, lds, cvs) ==
  LET ord == Distinct(Roles(ref, lds, cvs), <<>>)
  IN /\ ffmpegRef' = Renamed(ref, ord)
     /\ loads' = [l \in LoadId |-> [lds[l] EXCEPT !.eng = Renamed(@, ord)]]
     /\ conv' = [c \in Conv |-> [cvs[c] EXCEPT !.eng = Renamed(@, ord)]]
     /\ engines' = [i \in Eng |-> IF i <= Len(ord) THEN engs[ord[i]] ELSE FreshEngine]

\* FFmpeg.terminate(): the worker is destroyed, the instance is no longer loaded
Terminated(eng) ==
  [eng EXCEPT !.worker = FALSE, !.loaded = FALSE, !.termCalls = @ + 1,
              !.mp4Out = "absent", !.gifOut = "absent"]

\* The engines after terminateAndReset(): current?.terminate()
EnginesAfterTerminate(engs, ref) ==
  IF ref = 0 THEN engs ELSE [engs EXCEPT ![ref] = Terminated(@)]

\* terminate() rejects the calls that are pending on the instance; settle = FALSE
\* is an engine whose pending command stays unsettled after its worker is gone.
ConvAfterTerminate(cvs, ref, settle) ==
  [c \in Conv |->
     IF ref # 0 /\ cvs[c].pc = "exec" /\ cvs[c].eng = ref /\ cvs[c].promise = "running"
     THEN IF settle THEN [cvs[c] EXCEPT !.promise = "rejected", !.rejErr = ErrTerminated]
                    ELSE [cvs[c] EXCEPT !.promise = "dead"]
     ELSE cvs[c]]

LoadsAfterTerminate(lds, ref, settle) ==
  [l \in LoadId |->
     IF ref # 0 /\ lds[l].pc = "init" /\ lds[l].eng = ref /\ settle
     THEN [lds[l] EXCEPT !.pc = "initRej"]
     ELSE lds[l]]

\* ---------------------------------------------------------------- conversions
IdleConv == [pc |-> "idle", caller |-> 0, aborted |-> FALSE, eng |-> 0,
             att |-> "none", idx |-> 0, site |-> "none",
             promise |-> "none", rejErr |-> "none", code |-> 0,
             killed |-> FALSE, timer |-> FALSE, listener |-> FALSE,
             staleTimer |-> FALSE, staleListener |-> FALSE,
             \* the 50 ms poller of the running command; a poller of an earlier
             \* command of this call is still scheduled
             poller |-> FALSE, stalePoller |-> FALSE,
             xres |-> "none", awaitLoad |-> 0, savedErr |-> "none",
             exitCodeGif |-> 1, lastGifError |-> "null",
             mp4Result |-> FALSE, gifResult |-> "null", error |-> "none",
             finallyRan |-> FALSE,
             \* observation only: what killed the running command first, whether
             \* ffmpeg.exec was ever called, where the call was when it was cancelled,
             \* the attempt that threw last and the reloads since, the formats
             \* that have had a successful attempt
             killedBy |-> "none", issued |-> FALSE, cancelPhase |-> "none",
             failedAtt |-> "none", failedIdx |-> 0, failedErr |-> "none", reloads |-> 0,
             mp4Won |-> FALSE, gifWon |-> FALSE]

IdleLoad == [pc |-> "free", eng |-> 0]
IdleLoop == [pc |-> "idle", item |-> 0, conv |-> 0]

\* code that runs synchronously right after the action that set the pc
SyncPc == {"callLoad", "xstart", "acode", "athrow", "fail"}
SyncPending == \E c \in Conv : conv[c].pc \in SyncPc

LoadSettled(l) == IF l = 0 THEN TRUE ELSE loads[l].pc \in {"ok", "fail"}

\* continuations whose promise has settled
ConvMicro(c) ==
  \/ conv[c].pc = "awaitLoad" /\ LoadSettled(conv[c].awaitLoad)
  \/ conv[c].pc = "exec" /\ conv[c].promise \in {"resolved", "rejected"}
  \/ conv[c].pc \in {"ok", "err"}
MicrotaskPending ==
  \/ SyncPending
  \/ \E c \in Conv : ConvMicro(c)
  \/ \E l \in LoadId : loads[l].pc = "initRej"

\* an event of the environment (user call, timer, worker message) can run
Quiescent == ~MicrotaskPending

\* ---------------------------------------------------------------- cacheManager
FFMPEG_VERSION == "0.12.6"
Versions == {FFMPEG_VERSION, "0.12.5"}

\* what setCachedAssets is given: the three blob URLs of a bundle
Bundles == {[coreURL |-> "blob:core1", wasmURL |-> "blob:wasm1", workerURL |-> "blob:worker1"],
            [coreURL |-> "blob:core2", wasmURL |-> "blob:wasm2", workerURL |-> "blob:worker2"]}
NoBundle == [coreURL |-> "", wasmURL |-> "", workerURL |-> ""]

\* store.get(version) of a key that is not there, and the null of a miss
NoRecord == [coreURL |-> "", wasmURL |-> "", workerURL |-> "", version |-> ""]
Miss == NoRecord

\* { ...assets, timestamp: Date.now(), version }; the timestamp is left out
CachedAssets(version, assets) ==
  [coreURL |-> assets.coreURL, wasmURL |-> assets.wasmURL, workerURL |-> assets.workerURL,
   version |-> version]

\* a record that lacks one of the three URLs
PartialRecord(version) ==
  [coreURL |-> "blob:core1", wasmURL |-> "", workerURL |-> "blob:worker1", version |-> version]

EmptyStore == [v \in Versions |-> NoRecord]

\* How a call fares with IndexedDB: it works; isIndexedDBAvailable() is false;
\* or openDatabase(), the transaction or the request fails.
Faults == {"none", "unavailable", "error"}

\* result?.coreURL && result.wasmURL && result.workerURL
IsValidRecord(r) == r.coreURL # "" /\ r.wasmURL # "" /\ r.workerURL # ""

\* a lookup that returns the first valid record of the store, whatever its key
GetCachedAssetsAnyVersion(st, version, fault) ==
  IF fault # "none" THEN Miss
  ELSE IF \E v \in Versions : IsValidRecord(st[v])
       THEN st[CHOOSE v \in Versions : IsValidRecord(st[v])]
       ELSE Miss

\* getCachedAssets(version): the record when it is valid, null otherwise and
\* from the catch
GetCachedAssets(st, version, fault) ==
  IF fault # "none" THEN Miss
  ELSE IF IsValidRecord(st[version]) THEN st[version] ELSE Miss

\* clearCache(): store.clear(), errors swallowed
StoreAfterClear(st, fault) == IF fault = "none" THEN EmptyStore ELSE st

\* deleteCachedVersion(version): store.delete(version), errors swallowed
StoreAfterDelete(st, version, fault) ==
  IF fault = "none" THEN [st EXCEPT ![version] = NoRecord] ELSE st

\* setCachedAssets(version, assets): without enough quota the cache is cleared
\* first; then store.put(record, version)
StoreAfterSet(st, version, assets, fault, hasQuota, clearFault) ==
  IF fault = "unavailable" THEN st
  ELSE LET cleared == IF hasQuota THEN st ELSE StoreAfterClear(st, clearFault)
       IN IF fault = "error" THEN cleared
          ELSE [cleared EXCEPT ![version] = CachedAssets(version, assets)]

\* its return value
SetCachedAssets(fault) == fault = "none"

\* observation: the last call of the cache manager, what it was given, how
\* IndexedDB fared, what it returned and whether it threw; puts are the
\* versions a record was ever put under
NoCall == [op |-> "none", version |-> "", assets |-> NoBundle, fault |-> "none",
           got |-> Miss, ok |-> FALSE, threw |-> FALSE, puts |-> {}]

\* ---------------------------------------------------------------- workerPreprocess
\* preprocessFileInWorker calls are numbered by their correlation id
ReqId == 1..MaxRequests
WorkerId == 1..MaxWorkers

NoWorker == "none"
\* pc: "buffer" = awaiting file.arrayBuffer(), "waiting" = awaiting the result;
\* worker: the worker captured at line 120; posted: the request reached a live
\* worker; answered: that worker has posted its result
NoRequest == [pc |-> "none", worker |-> 0, aborted |-> FALSE, listener |-> FALSE,
              posted |-> FALSE, answered |-> FALSE, outcome |-> "none", error |-> "none"]
ErrPrepCancelled == "Conversion cancelled by user"
ErrPrepCrashed == "Preprocess worker crashed."
ErrPrepTerminated == "Preprocess worker terminated."
ErrPrepWorker == "msg.payload.error"
ErrPrepPost == "postMessage"
ErrPrepRead == "arrayBuffer"

TypeOK ==
  /\ ffmpegRef \in 0..MaxEngines
  /\ didAttachListenersRef \in BOOLEAN
  /\ activeConvertRef \in BOOLEAN
  /\ abortControllerRef \in 0..MaxConv
  /\ loadPromiseRef \in 0..MaxLoads
  /\ isLoaded \in BOOLEAN /\ isLoading \in BOOLEAN /\ isConverting \in BOOLEAN
  /\ deviceMemory \in DeviceMemories
  /\ DOMAIN engines = Eng /\ DOMAIN loads = LoadId /\ DOMAIN conv = Conv
  /\ progress \in 0..100
  /\ pendingProgress \in -1..100
  /\ progressRafId \in BOOLEAN
  /\ DOMAIN store = Versions
  /\ cacheCall.op \in {"none", "available", "get", "set", "clear", "delete"}
  /\ workerRef \in 0..MaxWorkers
  /\ pending \subseteq ReqId
  /\ nextId \in 1..(MaxRequests + 1)
  /\ workers \in [WorkerId -> {NoWorker, "alive", "terminated"}]
  /\ DOMAIN requests = ReqId
  /\ \A m \in inbox : m.id \in ReqId /\ m.ok \in BOOLEAN

Init ==
  /\ ffmpegRef = 0
  /\ didAttachListenersRef = FALSE
  /\ activeConvertRef = FALSE
  /\ abortControllerRef = 0
  /\ loadPromiseRef = 0
  /\ isLoaded = FALSE
  /\ isLoading = FALSE
  /\ isConverting = FALSE
  /\ deviceMemory \in DeviceMemories
  /\ engines = [e \in Eng |-> FreshEngine]
  /\ loads = [l \in LoadId |-> IdleLoad]
  /\ conv = [c \in Conv |-> IdleConv]
  /\ items = <<>>
  /\ idCounter = 0
  /\ isProcessing = FALSE
  /\ isPaused = FALSE
  /\ currentItemId = 0
  /\ loops = [l \in Loop |-> IdleLoop]
  /\ progress = 0
  /\ pendingProgress = -1
  /\ progressRafId = FALSE
  /\ store = EmptyStore
  /\ cacheCall = NoCall
  /\ workerRef = 0
  /\ pending = {}
  /\ nextId = 1
  /\ workers = [w \in WorkerId |-> NoWorker]
  /\ requests = [r \in ReqId |-> NoRequest]
  /\ inbox = {}

\* ---------------------------------------------------------------- progress
\* setProgress(p): the signal is written as it is
SetProgress(p) == progress' = p /\ UNCHANGED <<pendingProgress, progressRafId>>

\* resetProgressThrottle(): the requested frame is cancelled
ResetProgressThrottle == pendingProgress' = -1 /\ progressRafId' = FALSE

\* ---------------------------------------------------------------- load()
FreeLoads == {l \in LoadId : loads[l].pc = "free"}
NewLoadId == CHOOSE l \in FreeLoads : \A m \in FreeLoads : l <= m

LoadWaiters(l) == {c \in Conv : conv[c].pc = "awaitLoad" /\ conv[c].awaitLoad = l}

\* load() finds the engine loaded and returns
LoadIsNoop == IF ffmpegRef = 0 THEN FALSE ELSE engines[ffmpegRef].loaded
\* load() finds a load in flight and awaits it
LoadIsJoin == ~LoadIsNoop /\ loadPromiseRef # 0
\* load() starts the closure p
LoadIsFresh == ~LoadIsNoop /\ loadPromiseRef = 0
LoadCanRun == LoadIsFresh => (FreeLoads # {} /\ (ffmpegRef # 0 \/ FreeEngines # {}))

\* The synchronous part of load(), up to its first await. The promise the
\* caller awaits is LoadHandle (0: already resolved).
LoadHandle ==
  IF LoadIsNoop THEN 0 ELSE IF LoadIsJoin THEN loadPromiseRef ELSE NewLoadId

LoadEngine == IF ffmpegRef = 0 THEN NewEngineId ELSE ffmpegRef

LoadSync(setLoadingFirst, cvs) ==
  /\ LoadCanRun
  /\ IF LoadIsNoop
     THEN /\ isLoaded' = TRUE
          /\ isLoading' = FALSE
          /\ conv' = cvs
          /\ UNCHANGED <<ffmpegRef, didAttachListenersRef, loadPromiseRef,
                         engines, loads>>
     ELSE IF LoadIsJoin
     THEN /\ isLoading' = (isLoading \/ setLoadingFirst)
          /\ conv' = cvs
          /\ UNCHANGED <<ffmpegRef, didAttachListenersRef, loadPromiseRef,
                         engines, loads, isLoaded>>
     ELSE /\ isLoading' = TRUE
          /\ Commit(LoadEngine,
                    [engines EXCEPT ![LoadEngine] =
                       [(IF ffmpegRef = 0 THEN FreshEngine ELSE @) EXCEPT
                          !.listeners = IF didAttachListenersRef THEN @ ELSE @ + 1]],
                    [loads EXCEPT ![NewLoadId] = [pc |-> "assets", eng |-> LoadEngine]],
                    cvs)
          /\ didAttachListenersRef' = TRUE
          /\ loadPromiseRef' = NewLoadId
          /\ UNCHANGED isLoaded

\* The application's warm-up: load() fire and forget, unless the engine is
\* loaded or loading
MaybeWarmupEngine ==
  /\ Quiescent
  /\ ~isLoaded /\ ~isLoading
  /\ LoadSync(FALSE, conv)
  /\ UNCHANGED <<activeConvertRef, abortControllerRef, deviceMemory>>
  /\ UNCHANGED <<queueVars, isConverting, progressVars, cacheVars, preprocessVars>>

\* a settled load keeps its slot until its waiters have resumed
SettledPc(l, res) == IF LoadWaiters(l) = {} THEN "free" ELSE res

\* The catch and finally of p: report, terminateAndReset(), forget the promise.
LoadCatch(l, settle) ==
  /\ isLoading' = FALSE
  /\ isLoaded' = FALSE
  /\ Commit(0, EnginesAfterTerminate(engines, ffmpegRef),
            [LoadsAfterTerminate(loads, ffmpegRef, settle) EXCEPT
               ![l] = [pc |-> SettledPc(l, "fail"), eng |-> 0]],
            ConvAfterTerminate(conv, ffmpegRef, settle))
  /\ didAttachListenersRef' = FALSE
  /\ loadPromiseRef' = 0
  /\ UNCHANGED <<activeConvertRef, abortControllerRef, deviceMemory>>
  /\ UNCHANGED <<queueVars, isConverting, progressVars, cacheVars, preprocessVars>>

\* The assets are there (cache hit or download): p calls ffmpeg.load(assets),
\* which starts the worker of p's instance.
LoadAssetsOk(l) ==
  /\ Quiescent
  /\ loads[l].pc = "assets"
  /\ loads' = [loads EXCEPT ![l].pc = "init"]
  /\ engines' = [engines EXCEPT ![loads[l].eng].worker = TRUE]
  /\ UNCHANGED <<ffmpegRef, didAttachListenersRef, activeConvertRef, abortControllerRef,
                 loadPromiseRef, isLoaded, isLoading, deviceMemory, conv>>
  /\ UNCHANGED <<queueVars, isConverting, progressVars, cacheVars, preprocessVars>>

\* The download fails or runs into ASSET_DOWNLOAD_TIMEOUT_MS
LoadAssetsFail(l) ==
  /\ Quiescent
  /\ loads[l].pc = "assets"
  /\ \E settle \in BOOLEAN : LoadCatch(l, settle)

\* ffmpeg.load() resolves
LoadInitOk(l) ==
  /\ Quiescent
  /\ loads[l].pc = "init"
  /\ engines[loads[l].eng].worker
  /\ isLoaded' = TRUE
  /\ isLoading' = FALSE
  /\ loadPromiseRef' = 0
  /\ Commit(ffmpegRef, [engines EXCEPT ![loads[l].eng].loaded = TRUE],
            [loads EXCEPT ![l] = [pc |-> SettledPc(l, "ok"), eng |-> 0]], conv)
  /\ SetProgress(0)
  /\ UNCHANGED <<didAttachListenersRef, activeConvertRef, abortControllerRef,
                 deviceMemory>>
  /\ UNCHANGED <<queueVars, isConverting, cacheVars, preprocessVars>>

\* ffmpeg.load() rejects or runs into CORE_INIT_TIMEOUT_MS
LoadInitFail(l) ==
  /\ Quiescent
  /\ loads[l].pc = "init"
  /\ \E settle \in BOOLEAN : LoadCatch(l, settle)

\* ffmpeg.load() was rejected by terminate()
LoadInitRejected(l) ==
  /\ ~SyncPending
  /\ loads[l].pc = "initRej"
  /\ \E settle \in BOOLEAN : LoadCatch(l, settle)

\* ---------------------------------------------------------------- cleanup()
Cleanup ==
  /\ Quiescent
  /\ \E settle \in BOOLEAN :
       Commit(0, EnginesAfterTerminate(engines, ffmpegRef),
              LoadsAfterTerminate(loads, ffmpegRef, settle),
              ConvAfterTerminate(conv, ffmpegRef, settle))
  /\ didAttachListenersRef' = FALSE
  /\ loadPromiseRef' = 0
  /\ UNCHANGED <<activeConvertRef, abortControllerRef, isLoaded, isLoading, deviceMemory>>
  /\ UNCHANGED <<queueVars, isConverting, progressVars, cacheVars, preprocessVars>>

\* ---------------------------------------------------------------- the ladders' plans
\* the plan as a function of navigator.deviceMemory
IsLowMemory(dm) == dm > 0 /\ dm <= 4
IsVeryLowMemory(dm) == dm > 0 /\ dm <= 2

\* candidates that grow on a low-memory device
MaxSideCandidatesAscending(dm) ==
  IF IsVeryLowMemory(dm) THEN <<480>>
  ELSE IF IsLowMemory(dm) THEN <<480, 720>>
  ELSE <<1280, 960, 720, 480>>

MaxSideCandidatesFor(dm) ==
  IF IsVeryLowMemory(dm) THEN <<480>>
  ELSE IF IsLowMemory(dm) THEN <<720, 480>>
  ELSE <<1280, 960, 720, 480>>
UsePaletteFor(dm, maxSide) == ~IsLowMemory(dm) /\ maxSide >= 720
SingleFrameSide == 360

\* The GIF attempts in the order the loop and the fallback reach them when
\* every attempt returns a non-zero exit code
RECURSIVE GifLoopPlan(_, _)
GifLoopPlan(dm, i) ==
  IF i > Len(MaxSideCandidatesFor(dm)) THEN <<>>
  ELSE LET maxSide == MaxSideCandidatesFor(dm)[i]
           noPalette == <<[side |-> maxSide, att |-> "nopalette"]>>
       IN (IF UsePaletteFor(dm, maxSide)
           THEN <<[side |-> maxSide, att |-> "palette"]>> \o noPalette
           ELSE noPalette) \o GifLoopPlan(dm, i + 1)
GifPlanFor(dm) == GifLoopPlan(dm, 1) \o <<[side |-> SingleFrameSide, att |-> "single"]>>

\* the plan of this device
IsLowMemoryDevice == IsLowMemory(deviceMemory)
IsVeryLowMemoryDevice == IsVeryLowMemory(deviceMemory)
MaxSideCandidates == MaxSideCandidatesFor(deviceMemory)
AllowPalette == ~IsLowMemoryDevice
UsePalette(maxSide) == UsePaletteFor(deviceMemory, maxSide)
Mp4Side == 1280

Mp4Atts == {"libx264", "mpeg4", "mpeg4r"}
GifAtts == {"palette", "nopalette", "single"}

\* the size an attempt of a conversion runs at
SideOf(cv) ==
  IF cv.att \in Mp4Atts THEN Mp4Side
  ELSE IF cv.att = "single" THEN SingleFrameSide
  ELSE MaxSideCandidates[cv.idx]

\* the first attempt of the GIF loop at index i
GifAttemptAt(cv, i) ==
  [cv EXCEPT !.pc = "gifDel", !.idx = i,
             !.att = IF UsePalette(MaxSideCandidates[i]) THEN "palette" ELSE "nopalette"]

\* what follows the GIF loop: the single-frame fallback, or reading the result
GifAfterLoop(cv) ==
  IF cv.exitCodeGif # 0
  THEN [cv EXCEPT !.pc = "gifDel", !.att = "single"]
  ELSE [cv EXCEPT !.pc = "readGif"]

\* the loop's next iteration, or the end of the loop
GifNextIndex(cv) ==
  IF cv.idx + 1 <= Len(MaxSideCandidates) THEN GifAttemptAt(cv, cv.idx + 1) ELSE GifAfterLoop(cv)

\* the throw after the fallback: the message carries the out-of-memory hint
\* when the last GIF error looked like a WASM abort
GifExitError(cv) ==
  IF cv.lastGifError # "null" /\ IsLikelyWasmAbort(cv.lastGifError) THEN ErrGifExitOom ELSE ErrGifExit

Throw(cv, e) == [cv EXCEPT !.pc = "fail", !.error = e]

\* ---------------------------------------------------------------- execWithHardTimeout
\* execWithHardTimeout returns an exit code or throws
XDone(cv, issued, r) ==
  LET cw == [cv EXCEPT !.promise = "none", !.rejErr = "none", !.killed = FALSE,
                       !.timer = FALSE, !.listener = FALSE, !.poller = FALSE, !.xres = r,
                       !.issued = @ \/ issued]
  IN IF r = "code0" THEN [cw EXCEPT !.pc = "acode", !.code = 0]
     ELSE IF r = "code1" THEN [cw EXCEPT !.pc = "check", !.code = 1]
     ELSE [cw EXCEPT !.pc = "athrow", !.error = r]

\* an execWithHardTimeout without the check of the signal at its start
ExecStartConvUnchecked(cv) ==
  IF ~engines[cv.eng].loaded
  THEN XDone([cv EXCEPT !.killedBy = "none", !.stalePoller = TRUE], TRUE, ErrNotLoaded)
  ELSE [cv EXCEPT !.pc = "exec", !.promise = "running", !.killed = FALSE,
                  !.timer = TRUE, !.listener = TRUE, !.poller = TRUE,
                  !.killedBy = "none", !.issued = TRUE, !.xres = "none"]

ExecStartConv(cv) ==
  IF cv.aborted THEN XDone([cv EXCEPT !.killedBy = "none"], FALSE, ErrCancelled)
  ELSE IF ~engines[cv.eng].loaded
       THEN XDone([cv EXCEPT !.killedBy = "none", !.stalePoller = TRUE], TRUE, ErrNotLoaded)
  ELSE [cv EXCEPT !.pc = "exec", !.promise = "running", !.killed = FALSE,
                  !.timer = TRUE, !.listener = TRUE, !.poller = TRUE,
                  !.killedBy = "none", !.issued = TRUE, !.xres = "none"]

\* the synchronous start: the cancel check, the listener, the timer, ffmpeg.exec
ExecStart(c) ==
  /\ conv[c].pc = "xstart"
  /\ conv' = [conv EXCEPT ![c] = ExecStartConv(@)]
  /\ UNCHANGED <<ffmpegRef, didAttachListenersRef, activeConvertRef, abortControllerRef,
                 loadPromiseRef, isLoaded, isLoading, deviceMemory,
                 engines, loads>>
  /\ UNCHANGED <<queueVars, isConverting, progressVars, cacheVars, preprocessVars>>

Outputs == {"keep", "empty", "full"}

WithOutput(eng, att, out) ==
  IF out = "keep" THEN eng
  ELSE IF att \in Mp4Atts THEN [eng EXCEPT !.mp4Out = out] ELSE [eng EXCEPT !.gifOut = out]

\* the command ends with an exit code
ExecResolve(c) ==
  /\ Quiescent
  /\ conv[c].pc = "exec" /\ conv[c].promise = "running"
  /\ \E code \in {0, 1}, out \in Outputs :
       /\ conv' = [conv EXCEPT ![c].promise = "resolved", ![c].code = code]
       /\ engines' = [engines EXCEPT ![conv[c].eng] = WithOutput(@, conv[c].att, out)]
  /\ UNCHANGED <<ffmpegRef, didAttachListenersRef, activeConvertRef, abortControllerRef,
                 loadPromiseRef, isLoaded, isLoading, deviceMemory, loads>>
  /\ UNCHANGED <<queueVars, isConverting, progressVars, cacheVars, preprocessVars>>

\* the command rejects: the WASM core aborted, or some other error
ExecReject(c) ==
  /\ Quiescent
  /\ conv[c].pc = "exec" /\ conv[c].promise = "running"
  /\ \E e \in {ErrWasmAbort, ErrExec} :
       conv' = [conv EXCEPT ![c].promise = "rejected", ![c].rejErr = e]
  /\ UNCHANGED <<ffmpegRef, didAttachListenersRef, activeConvertRef, abortControllerRef,
                 loadPromiseRef, isLoaded, isLoading, deviceMemory,
                 engines, loads>>
  /\ UNCHANGED <<queueVars, isConverting, progressVars, cacheVars, preprocessVars>>

\* a terminateAndReset() that terminates the instance and keeps the handle
TerminateAndKeepHandle(cvs, settle) ==
  /\ Commit(ffmpegRef, EnginesAfterTerminate(engines, ffmpegRef),
            LoadsAfterTerminate(loads, ffmpegRef, settle),
            ConvAfterTerminate(cvs, ffmpegRef, settle))
  /\ didAttachListenersRef' = FALSE
  /\ loadPromiseRef' = 0

\* a terminateAndReset() that forgets the instance and keeps the flag that
\* says the listeners are attached
TerminateAndKeepFlag(cvs, settle) ==
  /\ Commit(0, EnginesAfterTerminate(engines, ffmpegRef),
            LoadsAfterTerminate(loads, ffmpegRef, settle),
            ConvAfterTerminate(cvs, ffmpegRef, settle))
  /\ UNCHANGED didAttachListenersRef
  /\ loadPromiseRef' = 0

\* terminateAndReset() called with the conversions as they are in cvs
TerminateAndReset(cvs, settle) ==
  /\ Commit(0, EnginesAfterTerminate(engines, ffmpegRef),
            LoadsAfterTerminate(loads, ffmpegRef, settle),
            ConvAfterTerminate(cvs, ffmpegRef, settle))
  /\ didAttachListenersRef' = FALSE
  /\ loadPromiseRef' = 0

\* a timer that marks the command killed and leaves the engine alone
HardTimeoutWithoutTerminate(c) ==
  /\ Quiescent
  /\ conv[c].pc = "exec" /\ conv[c].timer
  /\ conv' = [conv EXCEPT ![c].killed = TRUE, ![c].timer = FALSE,
                          ![c].killedBy = IF @ = "none" THEN "timer" ELSE @]
  /\ UNCHANGED <<ffmpegRef, didAttachListenersRef, loadPromiseRef, engines, loads>>
  /\ UNCHANGED <<activeConvertRef, abortControllerRef, isLoaded, isLoading, deviceMemory>>
  /\ UNCHANGED <<queueVars, isConverting, progressVars, cacheVars, preprocessVars>>

\* the HARD_TIMEOUT_MS timer of a command fires
HardTimeout(c) ==
  /\ Quiescent
  /\ conv[c].pc = "exec" /\ conv[c].timer
  /\ \E settle \in BOOLEAN :
       TerminateAndReset([conv EXCEPT ![c].killed = TRUE, ![c].timer = FALSE,
                                      ![c].killedBy = IF @ = "none" THEN "timer" ELSE @],
                         settle)
  /\ UNCHANGED <<activeConvertRef, abortControllerRef, isLoaded, isLoading, deviceMemory>>
  /\ UNCHANGED <<queueVars, isConverting, progressVars, cacheVars, preprocessVars>>

\* the timer of a command whose promise never settled fires after the call has thrown
StaleTimeout(c) ==
  /\ Quiescent
  /\ conv[c].staleTimer
  /\ \E settle \in BOOLEAN :
       TerminateAndReset([conv EXCEPT ![c].staleTimer = FALSE], settle)
  /\ UNCHANGED <<activeConvertRef, abortControllerRef, isLoaded, isLoading, deviceMemory>>
  /\ UNCHANGED <<queueVars, isConverting, progressVars, cacheVars, preprocessVars>>

\* cancelConversion(): abort the controller; the abort listeners run
CancelConversion ==
  /\ Quiescent
  /\ activeConvertRef
  /\ abortControllerRef # 0
  /\ ~conv[abortControllerRef].aborted
  /\ LET a == abortControllerRef
         live == conv[a].pc = "exec" /\ conv[a].listener
         cvs == [conv EXCEPT ![a].aborted = TRUE,
                             ![a].killed = IF live THEN TRUE ELSE @,
                             ![a].staleListener = FALSE,
                             ![a].killedBy = IF live /\ @ = "none" THEN "abort" ELSE @,
                             ![a].cancelPhase = IF conv[a].pc = "prep" THEN "prep"
                                                ELSE IF ~conv[a].issued THEN "pre"
                                                ELSE "run"]
     IN IF live \/ conv[a].staleListener
        THEN \E settle \in BOOLEAN : TerminateAndReset(cvs, settle)
        ELSE /\ conv' = cvs
             /\ UNCHANGED <<ffmpegRef, didAttachListenersRef, loadPromiseRef, engines, loads>>
  /\ UNCHANGED <<activeConvertRef, abortControllerRef, isLoaded, isLoading, deviceMemory>>
  /\ UNCHANGED <<queueVars, isConverting, progressVars, cacheVars, preprocessVars>>

\* the poller of a command whose promise has settled clears itself at its
\* next tick when killed is set, and is never cleared otherwise (316-322)
PollerLeftBehind(cv) == cv.poller /\ ~cv.killed

\* the exec promise has settled: clear the timer and the listener, then return
\* the code, or throw (the stuck error when the command was killed)
ExecSettle(c) ==
  /\ ~SyncPending
  /\ conv[c].pc = "exec" /\ conv[c].promise \in {"resolved", "rejected"}
  /\ LET cv == conv[c]
         r == IF cv.killed THEN ErrStuck
              ELSE IF cv.promise = "rejected" THEN cv.rejErr
              ELSE IF cv.code = 0 THEN "code0" ELSE "code1"
     IN conv' = [conv EXCEPT ![c] = [XDone(cv, TRUE, r) EXCEPT
                                       !.stalePoller = @ \/ PollerLeftBehind(cv)]]
  /\ UNCHANGED <<ffmpegRef, didAttachListenersRef, activeConvertRef, abortControllerRef,
                 loadPromiseRef, isLoaded, isLoading, deviceMemory,
                 engines, loads>>
  /\ UNCHANGED <<queueVars, isConverting, progressVars, cacheVars, preprocessVars>>

\* the 50 ms poller sees killed while the exec promise is still unsettled
Poll(c) ==
  /\ Quiescent
  /\ conv[c].pc = "exec" /\ conv[c].killed /\ conv[c].promise \in {"running", "dead"}
  /\ LET cv == conv[c]
     IN conv' = [conv EXCEPT ![c] =
                   [XDone(cv, TRUE, ErrStuck) EXCEPT
                      !.staleTimer = cv.staleTimer \/ cv.timer,
                      !.staleListener = cv.listener /\ ~cv.aborted]]
  /\ UNCHANGED <<ffmpegRef, didAttachListenersRef, activeConvertRef, abortControllerRef,
                 loadPromiseRef, isLoaded, isLoading, deviceMemory,
                 engines, loads>>
  /\ UNCHANGED <<queueVars, isConverting, progressVars, cacheVars, preprocessVars>>

\* ---------------------------------------------------------------- convertImage
IdleSlots == {c \in Conv : conv[c].pc = "idle"}
NewConvId == CHOOSE c \in IdleSlots : \A d \in IdleSlots : c <= d

\* convertImage up to its first await: a new AbortController, activeConvertRef,
\* setProgress(0) and then setProgress(0.05)
StartedConv(c, caller) ==
  [IdleConv EXCEPT !.pc = "prep", !.caller = caller, !.staleTimer = conv[c].staleTimer]

\* convertImage called from outside the batch hook
ConvertImageCall ==
  /\ Quiescent
  /\ IdleSlots # {}
  /\ conv' = [conv EXCEPT ![NewConvId] = StartedConv(NewConvId, 0)]
  /\ abortControllerRef' = NewConvId
  /\ activeConvertRef' = TRUE
  /\ isConverting' = TRUE
  /\ SetProgress(5)
  /\ UNCHANGED <<ffmpegRef, didAttachListenersRef, loadPromiseRef, isLoaded, isLoading,
                 deviceMemory, engines, loads>>
  /\ UNCHANGED <<queueVars, cacheVars, preprocessVars>>

\* Preprocessing ends. It rethrows only a cancellation, which leaves
\* convertImage before its try/finally; every other failure falls back to the
\* original file. Only the worker path looks at the signal.
PrepDone(c) ==
  /\ Quiescent
  /\ conv[c].pc = "prep"
  /\ \E viaWorker \in BOOLEAN :
       /\ conv' = [conv EXCEPT ![c] =
                     IF viaWorker /\ @.aborted
                     THEN [@ EXCEPT !.pc = "err", !.error = ErrCancelled]
                     ELSE [@ EXCEPT !.pc = "postprep"]]
       /\ SetProgress(IF viaWorker /\ conv[c].aborted THEN progress ELSE 10)
  /\ UNCHANGED <<ffmpegRef, didAttachListenersRef, activeConvertRef, abortControllerRef,
                 loadPromiseRef, isLoaded, isLoading, deviceMemory,
                 engines, loads>>
  /\ UNCHANGED <<queueVars, isConverting, cacheVars, preprocessVars>>

\* nextFrame() and fetchFile() are done: convertImage calls load()
PostPrep(c) ==
  /\ Quiescent
  /\ conv[c].pc = "postprep"
  /\ conv' = [conv EXCEPT ![c].pc = "callLoad", ![c].site = "init"]
  /\ UNCHANGED <<ffmpegRef, didAttachListenersRef, activeConvertRef, abortControllerRef,
                 loadPromiseRef, isLoaded, isLoading, deviceMemory,
                 engines, loads>>
  /\ UNCHANGED <<queueVars, isConverting, progressVars, cacheVars, preprocessVars>>

\* await load(), from the start of the conversion or from a ladder's reload
ConvCallLoad(c) ==
  /\ conv[c].pc = "callLoad"
  /\ LoadSync(conv[c].site # "init",
              [conv EXCEPT ![c].pc = "awaitLoad", ![c].awaitLoad = LoadHandle,
                           ![c].reloads = IF conv[c].site = "init" THEN @ ELSE @ + 1])
  /\ UNCHANGED <<activeConvertRef, abortControllerRef, deviceMemory>>
  /\ UNCHANGED <<queueVars, isConverting, progressVars, cacheVars, preprocessVars>>

\* load() has settled: the checks that follow it at the three call sites
AfterLoadConv(cv, ok) ==
  LET cw == [cv EXCEPT !.awaitLoad = 0]
      ref == ffmpegRef
      loaded == IF ref = 0 THEN FALSE ELSE engines[ref].loaded
  IN IF ~ok THEN Throw(cw, ErrLoad)
     ELSE IF cv.site = "init"
     THEN IF loaded THEN [cw EXCEPT !.pc = "write", !.eng = ref] ELSE Throw(cw, ErrNotLoaded)
     ELSE IF cv.site = "mp4"
     THEN IF ref # 0 THEN [cw EXCEPT !.pc = "write", !.eng = ref] ELSE Throw(cw, cv.savedErr)
     ELSE IF loaded THEN [cw EXCEPT !.pc = "write", !.eng = ref] ELSE Throw(cw, ErrReload)

AfterLoad(c) ==
  /\ ~SyncPending
  /\ conv[c].pc = "awaitLoad"
  /\ LoadSettled(conv[c].awaitLoad)
  /\ LET l == conv[c].awaitLoad
         ok == IF l = 0 THEN TRUE ELSE loads[l].pc = "ok"
     IN /\ Commit(ffmpegRef, engines,
                  IF l # 0 /\ LoadWaiters(l) = {c} THEN [loads EXCEPT ![l] = IdleLoad] ELSE loads,
                  [conv EXCEPT ![c] = AfterLoadConv(@, ok)])
        /\ isLoading' = IF AfterLoadConv(conv[c], ok).pc = "write" THEN FALSE ELSE isLoading
  /\ UNCHANGED <<didAttachListenersRef, activeConvertRef, abortControllerRef,
                 loadPromiseRef, isLoaded, deviceMemory>>
  /\ UNCHANGED <<queueVars, isConverting, progressVars, cacheVars, preprocessVars>>

\* The file-system calls before a run: the best-effort deletes (first run only)
\* and writeFile(input), which rejects when the instance is not loaded.
WriteDone(c) ==
  /\ Quiescent
  /\ conv[c].pc = "write"
  /\ LET cv == conv[c]
     IN IF ~engines[cv.eng].loaded
        THEN /\ conv' = [conv EXCEPT ![c] = Throw(cv, ErrNotLoaded)]
             /\ UNCHANGED engines
        ELSE IF cv.site = "init"
        THEN /\ conv' = [conv EXCEPT ![c] = [cv EXCEPT !.pc = "xstart", !.att = "libx264"]]
             /\ engines' = [engines EXCEPT ![cv.eng].mp4Out = "absent",
                                           ![cv.eng].gifOut = "absent"]
        ELSE IF cv.site = "mp4"
        THEN /\ conv' = [conv EXCEPT ![c] = [cv EXCEPT !.pc = "xstart", !.att = "mpeg4r"]]
             /\ UNCHANGED engines
        ELSE /\ conv' = [conv EXCEPT ![c] = GifNextIndex(cv)]
             /\ UNCHANGED engines
  /\ SetProgress(IF engines[conv[c].eng].loaded /\ conv[c].site = "init" THEN 20 ELSE progress)
  /\ UNCHANGED <<ffmpegRef, didAttachListenersRef, activeConvertRef, abortControllerRef,
                 loadPromiseRef, isLoaded, isLoading, deviceMemory, loads>>
  /\ UNCHANGED <<queueVars, isConverting, cacheVars, preprocessVars>>

OutFile(cv) == IF cv.att \in Mp4Atts THEN engines[cv.eng].mp4Out ELSE engines[cv.eng].gifOut

\* tryReadNonEmptyFile after a non-zero exit code: a non-empty output turns
\* the code into 0, a failing read leaves it
CheckDone(c) ==
  /\ Quiescent
  /\ conv[c].pc = "check"
  /\ LET cv == conv[c]
         maybe == engines[cv.eng].loaded /\ OutFile(cv) = "full"
     IN conv' = [conv EXCEPT ![c] = [cv EXCEPT !.pc = "acode", !.code = IF maybe THEN 0 ELSE 1]]
  /\ UNCHANGED <<ffmpegRef, didAttachListenersRef, activeConvertRef, abortControllerRef,
                 loadPromiseRef, isLoaded, isLoading, deviceMemory,
                 engines, loads>>
  /\ UNCHANGED <<queueVars, isConverting, progressVars, cacheVars, preprocessVars>>

\* a first MP4 run that is followed by the mpeg4 run whatever its exit code
AfterLibx264Always(cv) == [cv EXCEPT !.pc = "xstart", !.att = "mpeg4"]

\* exitCodeMp4 = await runMp4('libx264'); if (exitCodeMp4 !== 0) runMp4('mpeg4')
AfterLibx264(cv) ==
  IF cv.code = 0 THEN [cv EXCEPT !.pc = "readMp4"]
  ELSE [cv EXCEPT !.pc = "xstart", !.att = "mpeg4"]

\* A run has returned an exit code: the ladder's next move
OnCodeConv(cv) ==
  IF cv.att = "libx264"
  THEN AfterLibx264(cv)
  ELSE IF cv.att \in {"mpeg4", "mpeg4r"}
  THEN IF cv.code = 0 THEN [cv EXCEPT !.pc = "readMp4"] ELSE Throw(cv, ErrMp4Exit)
  ELSE IF cv.att = "palette"
  THEN IF cv.code = 0 THEN GifAfterLoop([cv EXCEPT !.exitCodeGif = 0])
       ELSE [cv EXCEPT !.pc = "gifDel", !.att = "nopalette", !.exitCodeGif = cv.code]
  ELSE IF cv.att = "nopalette"
  THEN IF cv.code = 0 THEN GifAfterLoop([cv EXCEPT !.exitCodeGif = 0])
       ELSE IF MaxSideCandidates[cv.idx] <= 480
       THEN GifAfterLoop([cv EXCEPT !.exitCodeGif = cv.code, !.lastGifError = ErrGifExit])
       ELSE GifNextIndex([cv EXCEPT !.exitCodeGif = cv.code, !.lastGifError = ErrGifExit])
  ELSE \* single
       IF cv.code = 0 THEN [cv EXCEPT !.pc = "readGif", !.exitCodeGif = 0]
       ELSE Throw([cv EXCEPT !.exitCodeGif = cv.code], GifExitError(cv))

\* observation: the attempt returned a code; a zero with a non-empty output is
\* a successful attempt of its format
NoteCode(old, new) ==
  [new EXCEPT !.failedAtt = "none", !.failedIdx = 0, !.failedErr = "none", !.reloads = 0,
              !.xres = "none", !.killedBy = "none", !.code = 0,
              !.mp4Won = @ \/ (old.att \in Mp4Atts /\ old.code = 0 /\ OutFile(old) = "full"),
              !.gifWon = @ \/ (old.att \in GifAtts /\ old.code = 0 /\ OutFile(old) = "full")]

\* setProgress(0.45) before the MP4 is read, setProgress(0.9) before the GIF is
ProgressAt(pc) == IF pc = "readMp4" THEN 45 ELSE IF pc = "readGif" THEN 90 ELSE progress

OnCode(c) ==
  /\ conv[c].pc = "acode"
  /\ conv' = [conv EXCEPT ![c] = NoteCode(@, OnCodeConv(@))]
  /\ SetProgress(ProgressAt(OnCodeConv(conv[c]).pc))
  /\ UNCHANGED <<ffmpegRef, didAttachListenersRef, activeConvertRef, abortControllerRef,
                 loadPromiseRef, isLoaded, isLoading, deviceMemory,
                 engines, loads>>
  /\ UNCHANGED <<queueVars, isConverting, cacheVars, preprocessVars>>

\* A run has thrown: the catch of the MP4 ladder, of the GIF loop, or of the
\* single-frame fallback
Mp4CatchReloads(cv) == cv.att \in {"libx264", "mpeg4"} /\ IsRecoverableMp4(cv.error)
GifCatchReloads(cv) == cv.att \in {"palette", "nopalette"} /\ IsRecoverableGif(cv.error)

OnThrowConv(cv) ==
  IF cv.att \in Mp4Atts
  THEN IF Mp4CatchReloads(cv)
       THEN [cv EXCEPT !.pc = "callLoad", !.site = "mp4", !.savedErr = cv.error]
       ELSE Throw(cv, cv.error)
  ELSE IF cv.att \in {"palette", "nopalette"}
  THEN IF GifCatchReloads(cv)
       THEN [cv EXCEPT !.pc = "callLoad", !.site = "gif", !.lastGifError = cv.error]
       ELSE GifAfterLoop([cv EXCEPT !.lastGifError = cv.error])
  ELSE Throw([cv EXCEPT !.lastGifError = cv.error],
             GifExitError([cv EXCEPT !.lastGifError = cv.error]))

\* observation: the attempt that threw, and its error
NoteFailure(old, new) ==
  [new EXCEPT !.failedAtt = old.att, !.failedIdx = old.idx, !.failedErr = old.error,
              !.reloads = 0, !.xres = "none", !.killedBy = "none", !.code = 0,
              !.error = IF new.pc = "fail" THEN @ ELSE "none"]

OnThrow(c) ==
  /\ conv[c].pc = "athrow"
  /\ IF GifCatchReloads(conv[c])
     THEN \E settle \in BOOLEAN :
            TerminateAndReset([conv EXCEPT ![c] = NoteFailure(@, OnThrowConv(@))], settle)
     ELSE /\ conv' = [conv EXCEPT ![c] = NoteFailure(@, OnThrowConv(@))]
          /\ UNCHANGED <<ffmpegRef, didAttachListenersRef, loadPromiseRef, engines, loads>>
  /\ UNCHANGED <<activeConvertRef, abortControllerRef, isLoaded, isLoading, deviceMemory>>
  /\ UNCHANGED <<queueVars, isConverting, progressVars, cacheVars, preprocessVars>>

\* the finally of convertImage
Finished(cv, pc) == [cv EXCEPT !.pc = pc, !.finallyRan = TRUE]

\* The catch of convertImage. A cancellation with an MP4 result returns the
\* partial result; an error that says the engine is lost terminates it.
Fail(c) ==
  /\ conv[c].pc = "fail"
  /\ LET cv == conv[c]
         e == cv.error
     IN IF IsCancelledByUser(e) /\ cv.mp4Result
        THEN /\ conv' = [conv EXCEPT ![c] = Finished([cv EXCEPT !.gifResult = "null"], "ok")]
             /\ UNCHANGED <<ffmpegRef, didAttachListenersRef, loadPromiseRef, engines, loads,
                            isLoaded, isLoading>>
        ELSE IF IsEngineLost(e)
        THEN /\ \E settle \in BOOLEAN :
                  TerminateAndReset([conv EXCEPT ![c] = Finished(cv, "err")], settle)
             /\ isLoaded' = FALSE
             /\ isLoading' = FALSE
        ELSE /\ conv' = [conv EXCEPT ![c] = Finished(cv, "err")]
             /\ UNCHANGED <<ffmpegRef, didAttachListenersRef, loadPromiseRef, engines, loads,
                            isLoaded, isLoading>>
  /\ activeConvertRef' = FALSE
  /\ abortControllerRef' = 0
  /\ isConverting' = FALSE
  /\ ResetProgressThrottle
  /\ UNCHANGED <<deviceMemory, progress>>
  /\ UNCHANGED <<queueVars, cacheVars, preprocessVars>>

\* readFile(out.mp4), the empty check, deleteFile, then the cancel check that
\* returns the MP4 alone, or the start of the GIF loop
ReadMp4(c) ==
  /\ Quiescent
  /\ conv[c].pc = "readMp4"
  /\ LET cv == conv[c]
         eng == engines[cv.eng]
     IN IF ~eng.loaded
        THEN /\ conv' = [conv EXCEPT ![c] = Throw(cv, ErrNotLoaded)]
             /\ UNCHANGED <<engines, activeConvertRef, abortControllerRef, isConverting>>
             /\ UNCHANGED progressVars
        ELSE IF eng.mp4Out = "absent"
        THEN /\ conv' = [conv EXCEPT ![c] = Throw(cv, ErrFs)]
             /\ UNCHANGED <<engines, activeConvertRef, abortControllerRef, isConverting>>
             /\ UNCHANGED progressVars
        ELSE IF eng.mp4Out = "empty"
        THEN /\ conv' = [conv EXCEPT ![c] = Throw(cv, ErrMp4Empty)]
             /\ UNCHANGED <<engines, activeConvertRef, abortControllerRef, isConverting>>
             /\ UNCHANGED progressVars
        ELSE /\ engines' = [engines EXCEPT ![cv.eng].mp4Out = "absent"]
             /\ IF cv.aborted
                THEN /\ conv' = [conv EXCEPT ![c] = Finished([cv EXCEPT !.mp4Result = TRUE], "ok")]
                     /\ activeConvertRef' = FALSE
                     /\ abortControllerRef' = 0
                     /\ isConverting' = FALSE
                     /\ ResetProgressThrottle
                     /\ UNCHANGED progress
                ELSE /\ conv' = [conv EXCEPT ![c] = GifAttemptAt([cv EXCEPT !.mp4Result = TRUE], 1)]
                     /\ UNCHANGED <<activeConvertRef, abortControllerRef, isConverting>>
                     /\ SetProgress(60)
  /\ UNCHANGED <<ffmpegRef, didAttachListenersRef, loadPromiseRef, isLoaded, isLoading,
                 deviceMemory, loads>>
  /\ UNCHANGED <<queueVars, cacheVars, preprocessVars>>

\* deleteFile(out.gif) before a GIF run (errors ignored), then the run starts
GifDel(c) ==
  /\ Quiescent
  /\ conv[c].pc = "gifDel"
  /\ conv' = [conv EXCEPT ![c].pc = "xstart"]
  /\ engines' = IF engines[conv[c].eng].loaded
                THEN [engines EXCEPT ![conv[c].eng].gifOut = "absent"]
                ELSE engines
  /\ UNCHANGED <<ffmpegRef, didAttachListenersRef, activeConvertRef, abortControllerRef,
                 loadPromiseRef, isLoaded, isLoading, deviceMemory, loads>>
  /\ UNCHANGED <<queueVars, isConverting, progressVars, cacheVars, preprocessVars>>

\* readFile(out.gif): the result is built from whatever was read
ReadGif(c) ==
  /\ Quiescent
  /\ conv[c].pc = "readGif"
  /\ LET cv == conv[c]
         eng == engines[cv.eng]
     IN IF ~eng.loaded
        THEN /\ conv' = [conv EXCEPT ![c] = Throw(cv, ErrNotLoaded)]
             /\ UNCHANGED <<engines, activeConvertRef, abortControllerRef, isConverting>>
             /\ UNCHANGED progressVars
        ELSE IF eng.gifOut = "absent"
        THEN /\ conv' = [conv EXCEPT ![c] = Throw(cv, ErrFs)]
             /\ UNCHANGED <<engines, activeConvertRef, abortControllerRef, isConverting>>
             /\ UNCHANGED progressVars
        ELSE /\ conv' = [conv EXCEPT ![c] = Finished([cv EXCEPT !.gifResult = eng.gifOut], "ok")]
             /\ engines' = [engines EXCEPT ![cv.eng].gifOut = "absent"]
             /\ activeConvertRef' = FALSE
             /\ abortControllerRef' = 0
             /\ isConverting' = FALSE
             /\ progress' = 100
             /\ ResetProgressThrottle
  /\ UNCHANGED <<ffmpegRef, didAttachListenersRef, loadPromiseRef, isLoaded, isLoading,
                 deviceMemory, loads>>
  /\ UNCHANGED <<queueVars, cacheVars, preprocessVars>>

\* convertImage has settled for the application: the call is over
Deliver(c) ==
  /\ ~SyncPending
  /\ conv[c].pc \in {"ok", "err"}
  /\ conv[c].caller = 0
  /\ Commit(ffmpegRef, engines, loads,
            [conv EXCEPT ![c] = [IdleConv EXCEPT !.staleTimer = conv[c].staleTimer]])
  /\ UNCHANGED <<didAttachListenersRef, activeConvertRef, abortControllerRef,
                 loadPromiseRef, isLoaded, isLoading, deviceMemory>>
  /\ UNCHANGED <<queueVars, isConverting, progressVars, cacheVars, preprocessVars>>

\* convertImage called by the application, whose Convert button is disabled
\* while isConverting() or isLoading()
ConvertImage ==
  /\ ~isConverting /\ ~isLoading
  /\ ConvertImageCall

\* ---------------------------------------------------------------- the application's engine owner
ConvStep(c) ==
  \/ PrepDone(c) \/ PostPrep(c) \/ ConvCallLoad(c) \/ AfterLoad(c) \/ WriteDone(c)
  \/ ExecStart(c) \/ ExecResolve(c) \/ ExecReject(c) \/ HardTimeout(c) \/ StaleTimeout(c)
  \/ ExecSettle(c) \/ Poll(c) \/ CheckDone(c) \/ OnCode(c) \/ OnThrow(c) \/ Fail(c)
  \/ ReadMp4(c) \/ GifDel(c) \/ ReadGif(c)

LoadStep(l) ==
  \/ LoadAssetsOk(l) \/ LoadAssetsFail(l) \/ LoadInitOk(l) \/ LoadInitFail(l)
  \/ LoadInitRejected(l)

Next ==
  \/ MaybeWarmupEngine \/ Cleanup \/ ConvertImage \/ CancelConversion
  \/ \E c \in Conv : ConvStep(c) \/ Deliver(c)
  \/ \E l \in LoadId : LoadStep(l)

Spec == Init /\ [][Next]_vars

\* ---------------------------------------------------------------- ConversionQueue
\* An item of the queue: its id is the value idCounter had when it was added.
\* mp4 and gif are the results stored with it; lostMp4 observes that the
\* conversion had produced its MP4 result when the item was marked failed.
NewItem(n, now) == [id |-> n, status |-> "pending", addedAt |-> now,
                    mp4 |-> FALSE, gif |-> FALSE, lostMp4 |-> FALSE]

\* Array.prototype.sort((a, b) => a.addedAt - b.addedAt): a stable sort
RECURSIVE InsertByAddedAt(_, _)
InsertByAddedAt(sorted, it) ==
  IF sorted = <<>> THEN <<it>>
  ELSE IF sorted[Len(sorted)].addedAt <= it.addedAt THEN Append(sorted, it)
  ELSE Append(InsertByAddedAt(SubSeq(sorted, 1, Len(sorted) - 1), it), sorted[Len(sorted)])

RECURSIVE SortByAddedAt(_)
SortByAddedAt(its) ==
  IF its = <<>> THEN <<>>
  ELSE InsertByAddedAt(SortByAddedAt(SubSeq(its, 1, Len(its) - 1)), its[Len(its)])

GetAllItems(its) == SortByAddedAt(its)

\* a getNext that returns the pending item added last
GetNextNewest(its) ==
  LET all == GetAllItems(its)
      pend == {i \in 1..Len(all) : all[i].status = "pending"}
  IN IF pend = {} THEN 0 ELSE all[CHOOSE i \in pend : \A j \in pend : i >= j].id

\* the id of the next pending item, 0 for null
GetNext(its) ==
  LET all == GetAllItems(its)
      pend == {i \in 1..Len(all) : all[i].status = "pending"}
  IN IF pend = {} THEN 0 ELSE all[CHOOSE i \in pend : \A j \in pend : i <= j].id

HasItem(its, id) == \E i \in 1..Len(its) : its[i].id = id
GetItem(its, id) == its[CHOOSE i \in 1..Len(its) : its[i].id = id]

\* an updateItem that sets the merged record under the id whether the map
\* holds the id or not
UpdateOrCreateItem(its, id, updates) ==
  IF HasItem(its, id)
  THEN [i \in 1..Len(its) |->
          IF its[i].id = id
          THEN [f \in DOMAIN its[i] |-> IF f \in DOMAIN updates THEN updates[f] ELSE its[i][f]]
          ELSE its[i]]
  ELSE Append(its, [f \in DOMAIN NewItem(id, 0) |->
                      IF f \in DOMAIN updates THEN updates[f] ELSE NewItem(id, 0)[f]])

\* updateItem merges the updates into the item, and does nothing for an id
\* that is not in the map
UpdateItem(its, id, updates) ==
  [i \in 1..Len(its) |->
     IF its[i].id = id
     THEN [f \in DOMAIN its[i] |-> IF f \in DOMAIN updates THEN updates[f] ELSE its[i][f]]
     ELSE its[i]]

\* an updateItem of the status that writes cancelled where pending is asked for
SetStatusNeverPending(its, id, st) ==
  UpdateItem(its, id, [status |-> IF st = "pending" THEN "cancelled" ELSE st])

SetStatus(its, id, st) == UpdateItem(its, id, [status |-> st])
SetCompleted(its, id, cv) ==
  UpdateItem(its, id, [status |-> "completed", mp4 |-> cv.mp4Result,
                       gif |-> (cv.gifResult # "null")])
\* a processItem that marks the item of a failed conversion cancelled
SetFailedAsCancelled(its, id, cv) ==
  UpdateItem(its, id, [status |-> "cancelled", lostMp4 |-> cv.mp4Result])

SetFailed(its, id, cv) ==
  UpdateItem(its, id, [status |-> "failed", lostMp4 |-> cv.mp4Result])

Remove(its, id) == SelectSeq(its, LAMBDA it : it.id # id)
ClearCompletedItems(its) == SelectSeq(its, LAMBDA it : it.status # "completed")

\* ---------------------------------------------------------------- useBatchConversion
FreeLoops == {k \in Loop : loops[k].pc = "idle"}
NewLoopId == CHOOSE k \in FreeLoops : \A j \in FreeLoops : k <= j

\* Date.now() never returns less than it returned before, and only the order
\* of the addedAt values matters: a reading is the latest addedAt in the queue,
\* or a later time, and time is counted from the first item of a queue that
\* was empty.
LatestAddedAt(its) ==
  IF its = <<>> THEN 0
  ELSE CHOOSE t \in {its[i].addedAt : i \in 1..Len(its)} :
         \A i \in 1..Len(its) : its[i].addedAt <= t
DateNow(its) ==
  IF its = <<>> THEN {0}
  ELSE {t \in LatestAddedAt(its)..(LatestAddedAt(its) + 1) : t <= MaxClock}

\* an addFiles without the size check
AddFilesUnchecked(maxIds, maxBatch) ==
  /\ Quiescent
  /\ \E n \in 1..maxBatch, now \in DateNow(items) :
       /\ idCounter + n <= maxIds
       /\ items' = items \o [i \in 1..n |-> NewItem(idCounter + i, now)]
       /\ idCounter' = idCounter + n
  /\ UNCHANGED <<isProcessing, isPaused, currentItemId, loops>>
  /\ UNCHANGED <<engineVars, progressVars, cacheVars, preprocessVars>>

\* addFiles with up to maxBatch files, while fewer than maxIds files have been
\* offered: the size check, then one item for each file
AddFilesUpTo(maxIds, maxBatch) ==
  /\ Quiescent
  /\ \E n \in 1..maxBatch, now \in DateNow(items) :
       /\ idCounter + n <= maxIds
       /\ Len(items) + n <= MAX_QUEUE_SIZE
       /\ items' = items \o [i \in 1..n |-> NewItem(idCounter + i, now)]
       /\ idCounter' = idCounter + n
  /\ UNCHANGED <<isProcessing, isPaused, currentItemId, loops>>
  /\ UNCHANGED <<engineVars, progressVars, cacheVars, preprocessVars>>

AddFiles == AddFilesUpTo(MaxItems, MaxItems)

\* a loop that gives up as soon as the queue holds a failed item
LoopIterateStopOnFailed(k, its, paused, proc) ==
  LET nxt == GetNext(its)
  IN IF paused \/ nxt = 0 \/ (\E i \in 1..Len(its) : its[i].status = "failed")
     THEN /\ items' = its
          /\ loops' = [loops EXCEPT ![k] = IdleLoop]
          /\ isProcessing' = FALSE
          /\ currentItemId' = 0
     ELSE /\ items' = SetStatus(its, nxt, "validating")
          /\ loops' = [loops EXCEPT ![k] = [pc |-> "validating", item |-> nxt, conv |-> 0]]
          /\ isProcessing' = proc
          /\ currentItemId' = nxt

\* a loop that leaves after its first item
LoopIterateOneItem(k, its, paused, proc) ==
  LET nxt == GetNext(its)
  IN IF paused \/ nxt = 0 \/ (\E i \in 1..Len(its) : its[i].status = "completed")
     THEN /\ items' = its
          /\ loops' = [loops EXCEPT ![k] = IdleLoop]
          /\ isProcessing' = FALSE
          /\ currentItemId' = 0
     ELSE /\ items' = SetStatus(its, nxt, "validating")
          /\ loops' = [loops EXCEPT ![k] = [pc |-> "validating", item |-> nxt, conv |-> 0]]
          /\ isProcessing' = proc
          /\ currentItemId' = nxt

\* One turn of the while loop of processQueue for the invocation k, with the
\* items as they are in its: leave when paused or when nothing is pending,
\* else take the next item and run processItem up to its first await.
LoopIterate(k, its, paused, proc) ==
  LET nxt == GetNext(its)
  IN IF paused \/ nxt = 0
     THEN /\ items' = its
          /\ loops' = [loops EXCEPT ![k] = IdleLoop]
          /\ isProcessing' = FALSE
          /\ currentItemId' = 0
     ELSE /\ items' = SetStatus(its, nxt, "validating")
          /\ loops' = [loops EXCEPT ![k] = [pc |-> "validating", item |-> nxt, conv |-> 0]]
          /\ isProcessing' = proc
          /\ currentItemId' = nxt

\* processQueue behind its guard, as the invocation k
RunQueue(k, its) ==
  /\ isPaused' = FALSE
  /\ LoopIterate(k, its, FALSE, TRUE)

\* a processQueue without its isProcessing() guard
ProcessQueueUnguarded ==
  /\ Quiescent
  /\ FreeLoops # {}
  /\ RunQueue(NewLoopId, items)
  /\ UNCHANGED idCounter
  /\ UNCHANGED <<engineVars, progressVars, cacheVars, preprocessVars>>

\* processQueue(): returns at once when the queue is processing
ProcessQueue ==
  /\ Quiescent
  /\ ~isProcessing
  /\ FreeLoops # {}
  /\ RunQueue(NewLoopId, items)
  /\ UNCHANGED idCounter
  /\ UNCHANGED <<engineVars, progressVars, cacheVars, preprocessVars>>

PauseQueue ==
  /\ Quiescent
  /\ ~isPaused
  /\ isPaused' = TRUE
  /\ UNCHANGED <<items, idCounter, isProcessing, currentItemId, loops>>
  /\ UNCHANGED <<engineVars, progressVars, cacheVars, preprocessVars>>

\* a resumeQueue that clears the pause flag and never starts a loop
ResumeQueueUnpauseOnly ==
  /\ Quiescent
  /\ isPaused
  /\ isPaused' = FALSE
  /\ UNCHANGED <<items, idCounter, isProcessing, currentItemId, loops>>
  /\ UNCHANGED <<engineVars, progressVars, cacheVars, preprocessVars>>

ResumeQueue ==
  /\ Quiescent
  /\ IF isProcessing
     THEN /\ isPaused
          /\ isPaused' = FALSE
          /\ UNCHANGED <<items, isProcessing, currentItemId, loops>>
     ELSE /\ FreeLoops # {}
          /\ RunQueue(NewLoopId, items)
  /\ UNCHANGED idCounter
  /\ UNCHANGED <<engineVars, progressVars, cacheVars, preprocessVars>>

RemoveItem(id) ==
  /\ Quiescent
  /\ HasItem(items, id)
  /\ GetItem(items, id).status \notin {"validating", "converting"}
  /\ items' = Remove(items, id)
  /\ UNCHANGED <<idCounter, isProcessing, isPaused, currentItemId, loops>>
  /\ UNCHANGED <<engineVars, progressVars, cacheVars, preprocessVars>>

\* a retryItem that does not look at the status of the item
RetryItemAnyStatus(id) ==
  /\ Quiescent
  /\ HasItem(items, id)
  /\ GetItem(items, id).status \notin {"pending", "validating", "converting"}
  /\ LET its == UpdateItem(items, id, [status |-> "pending", lostMp4 |-> FALSE])
     IN IF isProcessing
        THEN /\ items' = its
             /\ UNCHANGED <<isProcessing, isPaused, currentItemId, loops>>
        ELSE /\ FreeLoops # {}
             /\ RunQueue(NewLoopId, its)
  /\ UNCHANGED idCounter
  /\ UNCHANGED <<engineVars, progressVars, cacheVars, preprocessVars>>

\* retryItem: a failed item is pending again, and the queue starts unless it
\* is processing
RetryItem(id) ==
  /\ Quiescent
  /\ HasItem(items, id)
  /\ GetItem(items, id).status = "failed"
  /\ LET its == UpdateItem(items, id, [status |-> "pending", lostMp4 |-> FALSE])
     IN IF isProcessing
        THEN /\ items' = its
             /\ UNCHANGED <<isProcessing, isPaused, currentItemId, loops>>
        ELSE /\ FreeLoops # {}
             /\ RunQueue(NewLoopId, its)
  /\ UNCHANGED idCounter
  /\ UNCHANGED <<engineVars, progressVars, cacheVars, preprocessVars>>

ClearCompleted ==
  /\ Quiescent
  /\ \E i \in 1..Len(items) : items[i].status = "completed"
  /\ items' = ClearCompletedItems(items)
  /\ UNCHANGED <<idCounter, isProcessing, isPaused, currentItemId, loops>>
  /\ UNCHANGED <<engineVars, progressVars, cacheVars, preprocessVars>>

\* clearAll: pauseQueue(), then queue().clear()
ClearAll ==
  /\ Quiescent
  /\ isPaused' = TRUE
  /\ items' = <<>>
  /\ ~(isPaused /\ items = <<>>)
  /\ UNCHANGED <<idCounter, isProcessing, currentItemId, loops>>
  /\ UNCHANGED <<engineVars, progressVars, cacheVars, preprocessVars>>

\* validateImageFile has settled: processItem goes on to the conversion, or
\* returns and the loop takes its next turn
ValidateDone(k) ==
  /\ Quiescent
  /\ loops[k].pc = "validating"
  /\ \E valid \in BOOLEAN :
       IF ~valid
       THEN /\ LoopIterate(k, SetStatus(items, loops[k].item, "failed"), isPaused, isProcessing)
            /\ UNCHANGED <<engineVars, progressVars, cacheVars, preprocessVars>>
       ELSE IF isPaused
       THEN /\ LoopIterate(k, SetStatus(items, loops[k].item, "pending"), isPaused, isProcessing)
            /\ UNCHANGED <<engineVars, progressVars, cacheVars, preprocessVars>>
       ELSE /\ IdleSlots # {}
            /\ items' = SetStatus(items, loops[k].item, "converting")
            /\ loops' = [loops EXCEPT ![k].pc = "converting", ![k].conv = NewConvId]
            /\ conv' = [conv EXCEPT ![NewConvId] = StartedConv(NewConvId, k)]
            /\ abortControllerRef' = NewConvId
            /\ activeConvertRef' = TRUE
            /\ isConverting' = TRUE
            /\ SetProgress(5)
            /\ UNCHANGED <<isProcessing, currentItemId, cacheVars, preprocessVars>>
            /\ UNCHANGED <<ffmpegRef, didAttachListenersRef, loadPromiseRef, isLoaded,
                           isLoading, deviceMemory, engines, loads>>
  /\ UNCHANGED <<idCounter, isPaused>>

\* convertImage has settled: processItem stores the outcome, and the loop
\* takes its next turn
ConvDone(k) ==
  /\ ~SyncPending
  /\ loops[k].pc = "converting"
  /\ conv[loops[k].conv].pc \in {"ok", "err"}
  /\ LET c == loops[k].conv
         cv == conv[c]
         id == loops[k].item
         its == IF cv.pc = "ok" THEN SetCompleted(items, id, cv)
                ELSE IF isPaused THEN SetStatus(items, id, "pending")
                ELSE SetFailed(items, id, cv)
     IN /\ LoopIterate(k, its, isPaused, isProcessing)
        /\ Commit(ffmpegRef, engines, loads,
                  [conv EXCEPT ![c] = [IdleConv EXCEPT !.staleTimer = cv.staleTimer]])
  /\ UNCHANGED <<didAttachListenersRef, activeConvertRef, abortControllerRef,
                 loadPromiseRef, isLoaded, isLoading, isConverting, deviceMemory>>
  /\ UNCHANGED <<idCounter, isPaused, progressVars, cacheVars, preprocessVars>>

\* ---------------------------------------------------------------- the batch hook
\* useBatchConversion with the engine owner it creates for itself; nothing
\* else holds that owner, so that cancelConversion, cleanup and a load of its
\* own are never called on it. A command is then killed by its own timer
\* alone, which leaves no timer behind, and no load is in flight when the
\* engine is terminated.
QueueConvStep(c) ==
  \/ PrepDone(c) \/ PostPrep(c) \/ ConvCallLoad(c) \/ AfterLoad(c) \/ WriteDone(c)
  \/ ExecStart(c) \/ ExecResolve(c) \/ ExecReject(c) \/ HardTimeout(c)
  \/ ExecSettle(c) \/ Poll(c) \/ CheckDone(c) \/ OnCode(c) \/ OnThrow(c) \/ Fail(c)
  \/ ReadMp4(c) \/ GifDel(c) \/ ReadGif(c)

QueueLoadStep(l) ==
  \/ LoadAssetsOk(l) \/ LoadAssetsFail(l) \/ LoadInitOk(l) \/ LoadInitFail(l)

QueueNext ==
  \/ AddFiles \/ ProcessQueue \/ PauseQueue \/ ResumeQueue
  \/ ClearCompleted \/ ClearAll
  \/ \E id \in ItemId : RemoveItem(id) \/ RetryItem(id)
  \/ \E k \in Loop : ValidateDone(k) \/ ConvDone(k)
  \/ \E c \in Conv : QueueConvStep(c)
  \/ \E l \in LoadId : QueueLoadStep(l)

\* the batch hook on a device that reports 2 GB of memory
QueueInit == Init /\ deviceMemory = 2
QueueSpec == QueueInit /\ [][QueueNext]_vars

\* ---------------------------------------------------------------- a caller that does not wait
\* The hook itself accepts convertImage while an earlier call is in flight;
\* here its caller does not look at isConverting(). The calls are followed up
\* to the end of their first command, with an engine that loads and answers.
ReentrantNext ==
  \/ ConvertImageCall
  \/ \E c \in Conv :
        \/ PrepDone(c) \/ PostPrep(c) \/ ConvCallLoad(c) \/ AfterLoad(c) \/ WriteDone(c)
        \/ ExecStart(c) \/ ExecResolve(c) \/ ExecSettle(c)
  \/ \E l \in LoadId : LoadAssetsOk(l) \/ LoadInitOk(l)

ReentrantSpec == QueueInit /\ [][ReentrantNext]_vars

RunningCommands == {c \in Conv : conv[c].pc = "exec" /\ conv[c].promise = "running"
                                 /\ ~conv[c].killed}

\* ---------------------------------------------------------------- claims
\* C1: at every instant at most one engine command is running, that is, issued
\* through execWithHardTimeout and neither settled nor killed.
C1_AtMostOneCommand == Cardinality(RunningCommands) <= 1

\* two calls of convertImage have each a command running on the same instance
C1_TwoCommands ==
  \E c, d \in RunningCommands : c # d /\ conv[c].eng = conv[d].eng /\ conv[c].eng = ffmpegRef

\* the application's engine owner on a device that reports 2 GB of memory
LowMemorySpec == QueueInit /\ [][Next]_vars

\* C2: a command that has not settled when its hard timeout elapses is killed
\* by the watchdog: its engine instance has then been terminated exactly once,
\* the call does not return a code, and what it throws is the
\* stuck/terminated error, which is classified exec-timeout.
C2_TimeoutTerminatesOnce ==
  \A c \in Conv :
    conv[c].killedBy = "timer" =>
      /\ engines[conv[c].eng].termCalls = 1
      /\ conv[c].pc \in {"exec", "athrow"}
      /\ conv[c].pc = "athrow" =>
            /\ conv[c].error = ErrStuck
            /\ ClassifyEngineError(conv[c].error) = "exec-timeout"

\* the call of a command killed by its timer has thrown the stuck error
C2_TimedOutAndThrown ==
  \E c \in Conv : /\ conv[c].killedBy = "timer" /\ conv[c].pc = "athrow"
                   /\ conv[c].xres = ErrStuck
                   /\ engines[conv[c].eng].termCalls = 1

\* the lifecycle states of the engine owner
Ready == IF ffmpegRef = 0 THEN FALSE ELSE engines[ffmpegRef].loaded
Unloaded == ffmpegRef = 0

\* execWithHardTimeout of the conversion c returns a code, or throws, in this step
Returns(c) == conv[c].pc = "exec" /\ conv'[c].pc \in {"acode", "check"}
Throws(c) == conv[c].pc \in {"xstart", "exec"} /\ conv'[c].pc = "athrow"

C4_CancelIsCancelled ==
  \A c \in Conv :
    (conv[c].pc = "athrow" /\ conv[c].killedBy = "abort") =>
      /\ engines[conv[c].eng].termCalls >= 1
      /\ IsCancelledByUser(conv[c].error)

\* the command killed by a cancel throws the stuck error, classified exec-timeout
C4_CancelThrowsStuck ==
  \E c \in Conv : /\ conv[c].pc = "athrow" /\ conv[c].killedBy = "abort"
                   /\ conv[c].error = ErrStuck
                   /\ ClassifyEngineError(conv[c].error) = "exec-timeout"

\* C5: a job cancelled after its preprocessing and before its first engine
\* command never has a command issued, is never the one the engine is busy
\* with, and ends cancelled.
C5_CancelBeforeFirstCommand ==
  \A c \in Conv :
    conv[c].cancelPhase = "pre" =>
      /\ ~conv[c].issued
      /\ conv[c].pc # "exec"
      /\ conv[c].pc \in {"ok", "err"} =>
            conv[c].pc = "err" /\ IsCancelledByUser(conv[c].error)

\* a job cancelled before its first command has ended with another error
C5_CancelledEndsOtherwise ==
  \E c \in Conv : /\ conv[c].cancelPhase = "pre" /\ conv[c].pc = "err"
                   /\ ~conv[c].issued
                   /\ ~IsCancelledByUser(conv[c].error)

\* the configuration an attempt runs: the encoder or filter chain, and the size
ConfigOf(att, idx) == IF att \in {"mpeg4", "mpeg4r"} THEN <<"mpeg4", 0>> ELSE <<att, idx>>

\* the attempts of a ladder that have a cheaper attempt after them: every one
\* but the last MP4 run and the single-frame GIF
HasCheaper(att) == att \in {"libx264", "palette", "nopalette"}

\* C6: after an attempt has failed with a recoverable error (crash, not
\* loaded, stuck/terminated) the ladder goes on: the next command starts after
\* exactly one reload and runs another configuration than the one that failed.
C6_ReloadOnceThenCheaper ==
  \A c \in Conv :
    (conv[c].failedAtt # "none" /\ IsRecoverableGif(conv[c].failedErr)) =>
      /\ conv[c].pc = "exec" =>
            /\ conv[c].reloads = 1
            /\ ConfigOf(conv[c].att, conv[c].idx)
                  # ConfigOf(conv[c].failedAtt, conv[c].failedIdx)
      /\ (conv[c].pc = "fail" /\ HasCheaper(conv[c].failedAtt))
            => conv[c].error # conv[c].failedErr

\* the mpeg4 run that got stuck is run again after the reload
C6_FailedConfigRerun ==
  \E c \in Conv : /\ conv[c].pc = "exec" /\ conv[c].att = "mpeg4r"
                   /\ conv[c].failedAtt = "mpeg4" /\ conv[c].failedErr = ErrStuck
                   /\ conv[c].reloads = 1

\* C7: once an attempt of a format has exited successfully with a non-empty
\* output, no further command is started for that format.
C7_StopsAtFirstSuccess ==
  \A c \in Conv :
    conv[c].pc \in {"gifDel", "xstart", "exec"} =>
      /\ conv[c].att \in Mp4Atts => ~conv[c].mp4Won
      /\ conv[c].att \in GifAtts => ~conv[c].gifWon

\* the first MP4 attempt has succeeded and the conversion has gone on to the GIF
C7_Mp4WonGifRunning ==
  \E c \in Conv : /\ conv[c].mp4Won /\ conv[c].pc = "exec" /\ conv[c].att \in GifAtts
                   /\ conv[c].failedAtt = "none"

Active(status) == status \in {"validating", "converting"}
ActiveItems == {i \in 1..Len(items) : Active(items[i].status)}
ActiveLoops == {k \in Loop : loops[k].pc # "idle"}

\* C8: at most one item is validating or converting, and at most one
\* invocation of processQueue is in its loop.
C8_OneItemOneLoop == Cardinality(ActiveItems) <= 1 /\ Cardinality(ActiveLoops) <= 1

\* the queue is processing one item while another one is pending
C8_BusyWithPending ==
  /\ isProcessing /\ ActiveLoops # {}
  /\ \E i, j \in 1..Len(items) : items[i].status = "converting" /\ items[j].status = "pending"

\* C9: when the queue starts an item, no item that is pending at that moment
\* was added before it.
C9_StartsOldestPending ==
  [][\A i \in 1..Len(items') :
       (/\ items'[i].status = "validating"
        /\ ~(\E j \in 1..Len(items) :
               items[j].id = items'[i].id /\ items[j].status = "validating"))
       => \A j \in 1..Len(items') :
            items'[j].status = "pending" => items'[j].id > items'[i].id]_vars

\* an item has been started while an item added after it is pending
C9_StartedBeforeLater ==
  \E i, j \in 1..Len(items) :
    /\ Active(items[i].status) /\ items[j].status = "pending" /\ items[i].id < items[j].id

\* C10: an item is completed when a format has produced a result, and failed
\* only when no format has: a format that fails later does not discard the
\* result of one that succeeded.
C10_PartialSuccessKept ==
  \A i \in 1..Len(items) :
    /\ items[i].status = "completed" => items[i].mp4 \/ items[i].gif
    /\ items[i].status = "failed" => ~items[i].lostMp4

\* an item is failed although its conversion had produced the MP4
C10_FailedWithMp4 ==
  \E i \in 1..Len(items) : items[i].status = "failed" /\ items[i].lostMp4

\* the status the item id has in its, "gone" when the queue does not hold it
StatusOf(its, id) == IF HasItem(its, id) THEN GetItem(its, id).status ELSE "gone"

\* the step changes the status of the item id from a status in from to st
Becomes(id, from, st) ==
  StatusOf(items, id) \in from /\ StatusOf(items', id) = st

\* the step changes the status of the item id, which stays in the queue
Changes(id) ==
  /\ StatusOf(items, id) # StatusOf(items', id)
  /\ StatusOf(items, id) # "gone" /\ StatusOf(items', id) # "gone"

\* processItem resumes in its catch: the convertImage of the loop k has thrown
ConvThrew(k) ==
  /\ loops[k].pc = "converting" /\ conv[loops[k].conv].pc = "err"
  /\ loops'[k] # loops[k]

NoFault ==
  /\ \A i \in 1..Len(items) : items[i].status # "failed"
  /\ \A c \in Conv :
       /\ conv[c].pc \notin {"check", "athrow", "fail", "err"}
       /\ conv[c].promise = "resolved" => conv[c].code = 0 /\ OutFile(conv[c]) = "full"

\* the step A of a run in which nothing fails
FaultFree(A) == A /\ NoFault'

\* what the event loop and the environment do: the validation, the load and
\* the commands settle, and the continuations run
FaultFreeStep ==
  \/ \E k \in Loop : FaultFree(ValidateDone(k)) \/ FaultFree(ConvDone(k))
  \/ \E c \in Conv :
        \/ FaultFree(PrepDone(c)) \/ FaultFree(PostPrep(c)) \/ FaultFree(ConvCallLoad(c))
        \/ FaultFree(AfterLoad(c)) \/ FaultFree(WriteDone(c)) \/ FaultFree(ExecStart(c))
        \/ FaultFree(ExecResolve(c)) \/ FaultFree(ExecSettle(c)) \/ FaultFree(OnCode(c))
        \/ FaultFree(ReadMp4(c)) \/ FaultFree(GifDel(c)) \/ FaultFree(ReadGif(c))
  \/ \E l \in LoadId : FaultFree(LoadAssetsOk(l)) \/ FaultFree(LoadInitOk(l))

FaultFreeNext == FaultFree(AddFiles) \/ FaultFree(ProcessQueue) \/ FaultFreeStep

\* The user may stop calling; a promise that can settle does settle and a
\* continuation that can run does run. The device reports any of its memory
\* sizes.
FaultFreeSpec == Init /\ [][FaultFreeNext]_vars /\ WF_vars(FaultFreeStep)

AllCompleted == \A i \in 1..Len(items) : items[i].status = "completed"

\* C12: when nothing fails and the queue is neither paused nor cleared, a run
\* of processQueue ends, and when it has ended every item of the queue is
\* completed: none is pending.
C12_RunCompletesAll == isProcessing ~> (~isProcessing /\ AllCompleted)

\* the run is over and the queue holds two or more items, all completed
C12_AllDone == ~isProcessing /\ Len(items) >= 2 /\ AllCompleted

ConvReturned(id) ==
  \E k \in Loop : /\ loops[k].pc = "converting" /\ loops[k].item = id
                  /\ conv[loops[k].conv].pc = "ok"

Starts(id) == StatusOf(items', id) = "validating" /\ StatusOf(items, id) # "validating"

\* C14: while the queue is paused no pending item is started, whatever is
\* called, until resumeQueue() or processQueue() is called.
C14_PausedStartsNothing ==
  [][(isPaused /\ ~ResumeQueue /\ ~ProcessQueue) => \A id \in ItemId : ~Starts(id)]_vars

\* the queue is paused, no loop is running, and retryItem accepts an item
C14_PausedRetryAccepted ==
  isPaused /\ ~isProcessing /\ \E id \in ItemId : ENABLED RetryItem(id)

\* ---------------------------------------------------------------- pausing a run in which nothing fails
PauseResumeNext == FaultFreeNext \/ FaultFree(PauseQueue) \/ FaultFree(ResumeQueue)
PauseResumeSpec == QueueInit /\ [][PauseResumeNext]_vars /\ WF_vars(FaultFreeStep)

HasPending(its) == \E i \in 1..Len(its) : its[i].status = "pending"

\* C15: resumeQueue() with a loop still active clears the pause and leaves
\* the loop alone; without one it starts a loop when an item is pending; and
\* an item that is pending while a loop runs unpaused is eventually started,
\* unless the queue is paused again or the item is taken out.
C15_ResumeContinues ==
  /\ [][ResumeQueue =>
          IF isProcessing THEN loops' = loops /\ ~isPaused'
          ELSE HasPending(items) => (isProcessing' /\ ~isPaused' /\ Cardinality(ActiveLoops') = 1)]_vars
  /\ \A id \in ItemId :
       (StatusOf(items, id) = "pending" /\ isProcessing /\ ~isPaused)
          ~> (StatusOf(items, id) # "pending" \/ isPaused)

\* a pause has ended the run after an item was completed, and an item is pending
C15_PausedLoopGone ==
  /\ isPaused /\ ~isProcessing /\ HasPending(items)
  /\ \E i \in 1..Len(items) : items[i].status = "completed"

\* C16: removeItem(id) is accepted only for an item that is pending or failed.
C16_RemoveOnlyPendingOrFailed ==
  [][\A id \in ItemId : RemoveItem(id) => StatusOf(items, id) \in {"pending", "failed"}]_vars

\* removeItem accepts a completed item
C16_RemoveCompletedAccepted ==
  \E id \in ItemId : StatusOf(items, id) = "completed" /\ ENABLED RemoveItem(id)

\* C17: retryItem(id) is accepted only for a failed item; the item is then
\* pending (or already started again by the loop that retryItem starts) with
\* the results it had, and nothing else in the queue has lost its results.
\* An accepted retryItem(id) always changes the status of the item.
C17_RetryOnlyFailed ==
  [][\A id \in ItemId :
       (Changes(id) /\ RetryItem(id)) =>
         /\ StatusOf(items, id) = "failed"
         /\ StatusOf(items', id) \in {"pending", "validating"}
         /\ Len(items') = Len(items)
         /\ \A i \in 1..Len(items) : /\ items'[i].id = items[i].id
                                      /\ items'[i].mp4 = items[i].mp4
                                      /\ items'[i].gif = items[i].gif]_vars

\* an item is pending behind an item that was added after it and has been
\* processed: it had failed and was retried
C17_RetriedBehind ==
  \E i, j \in 1..Len(items) : /\ items[i].id < items[j].id
                               /\ items[i].status = "pending"
                               /\ items[j].status \in {"converting", "completed", "failed"}

\* ---------------------------------------------------------------- filling the queue
\* addFiles is called with batches of files until the queue is full, and the
\* queue is emptied by clearAll and by removeItem.
AddManyFiles == AddFilesUpTo(MaxEnqueued, MaxBatch)

CapNext == AddManyFiles \/ ClearAll \/ \E id \in ItemId : RemoveItem(id)
CapSpec == QueueInit /\ [][CapNext]_vars

\* C18: addFiles adds nothing when the queue would exceed MAX_QUEUE_SIZE, so
\* that the queue never holds more than MAX_QUEUE_SIZE items.
C18_QueueWithinCap == Len(items) <= MAX_QUEUE_SIZE

\* the queue is full and further files, which have been offered, are rejected
C18_QueueFull ==
  Len(items) = MAX_QUEUE_SIZE /\ idCounter < MaxEnqueued /\ ~ENABLED AddManyFiles

InFlightLoads == {l \in LoadId : loads[l].pc \in {"assets", "init"}}

\* C20: load() starts nothing while the engine is loaded or a load is in
\* flight: at most one load is in flight, and while one is, a call of load()
\* returns at once or awaits it.
C20_LoadIsIdempotent ==
  /\ Cardinality(InFlightLoads) <= 1
  /\ InFlightLoads # {} => (LoadIsNoop \/ LoadIsJoin)

\* convertImage is at its call of load() while a load is in flight that the
\* owner has forgotten: the call starts a load of its own
C20_SecondLoadCalled ==
  \E c \in Conv : conv[c].pc = "callLoad" /\ InFlightLoads # {} /\ LoadIsFresh

\* the closure p of load l runs into its catch in this step
LoadFails(l) == LoadAssetsFail(l) \/ LoadInitFail(l) \/ LoadInitRejected(l)

\* C21: when a step of load() fails, the instance it was loading has no worker
\* left (it is the handle that terminateAndReset() terminates, or its worker
\* was never started), the manager is Unloaded with no load recorded, and
\* the next load() starts a fresh load.
C21_FailedLoadResets ==
  [][\A l \in LoadId :
       LoadFails(l) =>
         /\ engines[loads[l].eng].worker => loads[l].eng = ffmpegRef
         /\ \A e \in Eng : engines'[e].worker =>
              \E m \in LoadId : m # l /\ loads'[m].eng = e
         /\ Unloaded' /\ loadPromiseRef' = 0
         /\ ~isLoaded' /\ ~isLoading'
         /\ LoadIsFresh']_vars

\* a load is initialising a worker on an instance that is no longer the handle
C21_OrphanInitialising ==
  \E l \in LoadId :
    loads[l].pc = "init" /\ loads[l].eng # ffmpegRef /\ engines[loads[l].eng].worker

\* What is left of terminateAndReset() when current.terminate() throws: the
\* instance keeps its worker; the calls pending on it have been rejected
\* (rejected = TRUE, the throw came after terminate() went through them) or
\* are still running.
ThrownTerminate(rejected, ref) ==
  Commit(ref, engines,
         IF rejected THEN LoadsAfterTerminate(loads, ffmpegRef, TRUE) ELSE loads,
         IF rejected THEN ConvAfterTerminate(conv, ffmpegRef, TRUE) ELSE conv)

\* a terminateAndReset() without its try/catch: the throw leaves the function
\* before the references are cleared
CleanupTerminateUncaught ==
  /\ Quiescent
  /\ ffmpegRef # 0
  /\ \E rejected \in BOOLEAN : ThrownTerminate(rejected, ffmpegRef)
  /\ UNCHANGED <<didAttachListenersRef, loadPromiseRef>>
  /\ UNCHANGED <<activeConvertRef, abortControllerRef, isLoaded, isLoading, deviceMemory>>
  /\ UNCHANGED <<queueVars, isConverting, progressVars, cacheVars, preprocessVars>>

\* cleanup() on an engine whose terminate() throws: the catch ignores the
\* error and the references are cleared all the same
CleanupTerminateThrows ==
  /\ Quiescent
  /\ ffmpegRef # 0
  /\ \E rejected \in BOOLEAN : ThrownTerminate(rejected, 0)
  /\ didAttachListenersRef' = FALSE
  /\ loadPromiseRef' = 0
  /\ UNCHANGED <<activeConvertRef, abortControllerRef, isLoaded, isLoading, deviceMemory>>
  /\ UNCHANGED <<queueVars, isConverting, progressVars, cacheVars, preprocessVars>>

\* the application's conversions and resets on a device whose engine may
\* throw from terminate(); nothing is warmed up and no conversion is cancelled
TerminateThrowsNext ==
  \/ Cleanup \/ CleanupTerminateThrows \/ ConvertImage
  \/ \E c \in Conv : QueueConvStep(c) \/ Deliver(c)
  \/ \E l \in LoadId : LoadStep(l)
TerminateThrowsSpec == QueueInit /\ [][TerminateThrowsNext]_vars

\* C22: a cleanup() leaves the manager Unloaded with no load recorded,
\* whether or not the engine's terminate() throws; on a manager that is
\* already Unloaded it can be called and changes nothing.
C22_TerminateAlwaysUnloads ==
  [][(/\ \A c \in Conv : conv'[c].pc = conv[c].pc
      /\ isLoaded' = isLoaded /\ isLoading' = isLoading
      /\ Cleanup \/ CleanupTerminateThrows) =>
       /\ Unloaded' /\ loadPromiseRef' = 0 /\ ~didAttachListenersRef'
       /\ (Unloaded /\ loadPromiseRef = 0) => (UNCHANGED vars /\ ENABLED Cleanup)]_vars

\* the manager is Unloaded while a command runs on an instance that still has
\* its worker and was never terminated: its terminate() threw
C22_UnloadedAfterThrow ==
  /\ Unloaded /\ loadPromiseRef = 0
  /\ \E c \in Conv : /\ conv[c].pc = "exec" /\ conv[c].promise = "running"
                     /\ engines[conv[c].eng].worker
                     /\ engines[conv[c].eng].termCalls = 0

\* clamp01, on hundredths
Clamp01(x) == IF x < 0 THEN 0 ELSE IF x > 100 THEN 100 ELSE x
Max(a, b) == IF a >= b THEN a ELSE b

\* the fractions the engine reports for a running command, some out of range
EventFractions == {-10, 30, 100, 120}

\* setProgressThrottled(next): the largest value since the last frame is kept,
\* and a frame is requested unless one is
SetProgressThrottled(next) ==
  /\ pendingProgress' = IF pendingProgress = -1 THEN Clamp01(next)
                        ELSE Max(pendingProgress, Clamp01(next))
  /\ progressRafId' = TRUE
  /\ UNCHANGED progress

\* A 'progress' or 'log' event of the instance a command is running on: the
\* listeners load() attached do nothing unless a conversion is active.
ProgressEvent(c, next) ==
  /\ Quiescent
  /\ conv[c].pc = "exec" /\ conv[c].promise = "running"
  /\ engines[conv[c].eng].worker /\ engines[conv[c].eng].listeners > 0
  /\ activeConvertRef
  /\ SetProgressThrottled(next)
  /\ UNCHANGED <<engineVars, queueVars, cacheVars, preprocessVars>>

\* the frame callback of setProgressThrottled: setProgress(p => max(p, value))
AnimationFrame ==
  /\ Quiescent
  /\ progressRafId
  /\ progressRafId' = FALSE
  /\ pendingProgress' = -1
  /\ progress' = IF pendingProgress = -1 THEN progress ELSE Max(progress, pendingProgress)
  /\ UNCHANGED <<engineVars, queueVars, cacheVars, preprocessVars>>

\* conversions of the application, one at a time, with the engine's progress
\* events and the browser's animation frames
ProgressNext ==
  \/ ConvertImage
  \/ \E c \in Conv : QueueConvStep(c) \/ Deliver(c)
  \/ \E l \in LoadId : QueueLoadStep(l)
  \/ \E c \in Conv, next \in EventFractions : ProgressEvent(c, next)
  \/ AnimationFrame

ProgressSpec == QueueInit /\ [][ProgressNext]_vars

\* a convertImage call starts in this step
ConversionStarts == \E c \in Conv : conv[c].pc = "idle" /\ conv'[c].pc = "prep"

\* C23: while a conversion is under way the published progress stays within
\* [0,1] and no step other than the start of a conversion lowers it.
C23_ProgressNeverDecreases ==
  [][(isConverting /\ ~ConversionStarts) =>
        (progress' >= progress /\ progress' \in 0..100)]_vars

\* the conversion has published 0.1, its load() has ended, and the signal is
\* back at 0 while the input is written
C23_ProgressBackAtZero ==
  \E c \in Conv : conv[c].pc = "write" /\ conv[c].site = "init" /\ progress = 0

\* ---------------------------------------------------------------- the cache manager's calls
\* a call of the cache manager touches nothing but IndexedDB
CacheCallOnly == UNCHANGED <<engineVars, queueVars, progressVars, preprocessVars>>

Called(op, version, assets, fault) ==
  [NoCall EXCEPT !.op = op, !.version = version, !.assets = assets, !.fault = fault,
                 !.puts = cacheCall.puts]

\* Records that an earlier session or another build of the application left
\* in the database before this session's first call
EarlierSession(version, record) ==
  /\ cacheCall.op = "none"
  /\ store[version] = NoRecord
  /\ store' = [store EXCEPT ![version] = record]
  /\ cacheCall' = [cacheCall EXCEPT !.puts = @ \cup {version}]
  /\ CacheCallOnly

\* a getCachedAssets without its try/catch: a failing request rejects the call
GetCachedAssetsCallUncaught(version) ==
  /\ Quiescent
  /\ \E fault \in Faults :
       cacheCall' = [Called("get", version, NoBundle, fault) EXCEPT
                       !.got = GetCachedAssets(store, version, fault),
                       !.threw = (fault = "error")]
  /\ UNCHANGED store
  /\ CacheCallOnly

\* await getCachedAssets(version)
GetCachedAssetsCall(version) ==
  /\ Quiescent
  /\ \E fault \in Faults :
       cacheCall' = [Called("get", version, NoBundle, fault) EXCEPT
                       !.got = GetCachedAssets(store, version, fault)]
  /\ UNCHANGED store
  /\ CacheCallOnly

\* the call record of a setCachedAssets
CalledSet(version, assets, fault) ==
  [Called("set", version, assets, fault) EXCEPT
     !.ok = SetCachedAssets(fault),
     !.puts = IF fault = "none" THEN @ \cup {version} ELSE @]

\* await setCachedAssets(version, assets)
SetCachedAssetsCall(version, assets) ==
  /\ Quiescent
  /\ \E fault, clearFault \in Faults, hasQuota \in BOOLEAN :
       /\ store' = StoreAfterSet(store, version, assets, fault, hasQuota, clearFault)
       /\ cacheCall' = CalledSet(version, assets, fault)
  /\ CacheCallOnly

\* await clearCache()
ClearCacheCall ==
  /\ Quiescent
  /\ \E fault \in Faults :
       /\ store' = StoreAfterClear(store, fault)
       /\ cacheCall' = Called("clear", "", NoBundle, fault)
  /\ CacheCallOnly

\* await deleteCachedVersion(version)
DeleteCachedVersionCall(version) ==
  /\ Quiescent
  /\ \E fault \in Faults :
       /\ store' = StoreAfterDelete(store, version, fault)
       /\ cacheCall' = Called("delete", version, NoBundle, fault)
  /\ CacheCallOnly

\* ---------------------------------------------------------------- load(): the assets, step by step
\* LoadAssetsOk and LoadAssetsFail are this phase in one step, for the
\* specifications that do not look at the cache.
LoadPhaseOnly ==
  /\ UNCHANGED <<ffmpegRef, didAttachListenersRef, activeConvertRef, abortControllerRef,
                 loadPromiseRef, isLoaded, isLoading, deviceMemory, conv>>
  /\ UNCHANGED <<queueVars, isConverting, progressVars, preprocessVars>>

\* p has its assets and calls ffmpeg.load(assets), which starts the worker
LoadStartsInit(l) ==
  /\ loads' = [loads EXCEPT ![l].pc = "init"]
  /\ engines' = [engines EXCEPT ![loads[l].eng].worker = TRUE]

\* cacheAvailable = await isIndexedDBAvailable()
LoadCacheChecked(l) ==
  /\ Quiescent
  /\ loads[l].pc = "assets"
  /\ \E available \in BOOLEAN :
       /\ loads' = [loads EXCEPT ![l].pc = IF available THEN "lookup" ELSE "downloadOnly"]
       /\ cacheCall' = [Called("available", "", NoBundle,
                               IF available THEN "none" ELSE "unavailable") EXCEPT
                          !.ok = available]
  /\ UNCHANGED <<store, engines>>
  /\ LoadPhaseOnly

\* a load that downloads whatever the lookup returned
LoadLookupThenDownload(l) ==
  /\ Quiescent
  /\ loads[l].pc = "lookup"
  /\ \E fault \in Faults :
       cacheCall' = [Called("get", FFMPEG_VERSION, NoBundle, fault) EXCEPT
                       !.got = GetCachedAssets(store, FFMPEG_VERSION, fault)]
  /\ loads' = [loads EXCEPT ![l].pc = "download"]
  /\ UNCHANGED <<store, engines>>
  /\ LoadPhaseOnly

\* cached = await getCachedAssets(FFMPEG_VERSION): a hit goes on to the init,
\* a miss calls getCoreAssets
LoadLookupDone(l) ==
  /\ Quiescent
  /\ loads[l].pc = "lookup"
  /\ \E fault \in Faults :
       LET cached == GetCachedAssets(store, FFMPEG_VERSION, fault)
       IN /\ cacheCall' = [Called("get", FFMPEG_VERSION, NoBundle, fault) EXCEPT !.got = cached]
          /\ IF cached # Miss
             THEN LoadStartsInit(l)
             ELSE /\ loads' = [loads EXCEPT ![l].pc = "download"]
                  /\ UNCHANGED engines
  /\ UNCHANGED store
  /\ LoadPhaseOnly

DownloadPcs == {"download", "downloadOnly"}

\* getCoreAssets resolves: with the cache available the bundle is written
\* through before the init
LoadDownloadOk(l) ==
  /\ Quiescent
  /\ loads[l].pc \in DownloadPcs
  /\ IF loads[l].pc = "download"
     THEN /\ loads' = [loads EXCEPT ![l].pc = "write"]
          /\ UNCHANGED engines
     ELSE LoadStartsInit(l)
  /\ UNCHANGED <<cacheVars, preprocessVars>>
  /\ LoadPhaseOnly

\* getCoreAssets rejects or runs into ASSET_DOWNLOAD_TIMEOUT_MS
LoadDownloadFail(l) ==
  /\ Quiescent
  /\ loads[l].pc \in DownloadPcs
  /\ \E settle \in BOOLEAN : LoadCatch(l, settle)

\* cacheSuccess = await setCachedAssets(FFMPEG_VERSION, cacheData): a false
\* is logged, and the init follows
LoadCacheWritten(l) ==
  /\ Quiescent
  /\ loads[l].pc = "write"
  /\ \E assets \in Bundles, fault, clearFault \in Faults, hasQuota \in BOOLEAN :
       /\ store' = StoreAfterSet(store, FFMPEG_VERSION, assets, fault, hasQuota, clearFault)
       /\ cacheCall' = CalledSet(FFMPEG_VERSION, assets, fault)
  /\ LoadStartsInit(l)
  /\ LoadPhaseOnly

\* the records an earlier session can have left
EarlierRecords(version) ==
  {PartialRecord(version)} \cup {CachedAssets(version, b) : b \in Bundles}

\* The cache manager called in any order, and the warm-up load() with its
\* assets phase step by step
CacheNext ==
  \/ \E v \in Versions : \E r \in EarlierRecords(v) : EarlierSession(v, r)
  \/ \E v \in Versions : GetCachedAssetsCall(v) \/ DeleteCachedVersionCall(v)
  \/ \E v \in Versions, b \in Bundles : SetCachedAssetsCall(v, b)
  \/ ClearCacheCall
  \/ MaybeWarmupEngine
  \/ \E l \in LoadId :
       \/ LoadCacheChecked(l) \/ LoadLookupDone(l) \/ LoadDownloadOk(l)
       \/ LoadDownloadFail(l) \/ LoadCacheWritten(l) \/ LoadInitOk(l) \/ LoadInitFail(l)

CacheSpec == QueueInit /\ [][CacheNext]_vars

\* the cache manager has been called in this step
CacheCalled == cacheCall' # cacheCall /\ cacheCall'.op # "none"

\* C24: no call of the cache manager throws; a get returns a miss when
\* IndexedDB is unavailable or fails or the record is partial, a set returns
\* false when it is unavailable or fails; and whatever the write-through
\* returns, load() goes on to the init.
C24_CacheFailuresStayInside ==
  /\ [](/\ ~cacheCall.threw
        /\ (cacheCall.op = "get" /\ cacheCall.fault # "none") => cacheCall.got = Miss
        /\ (cacheCall.op = "set" /\ cacheCall.fault # "none") => ~cacheCall.ok)
  /\ [][/\ (CacheCalled /\ cacheCall'.op = "get"
              /\ ~IsValidRecord(store[cacheCall'.version])) => cacheCall'.got = Miss
        /\ \A l \in LoadId :
             (loads[l].pc = "write" /\ loads'[l].pc # "write") => loads'[l].pc = "init"]_vars

\* the write-through of a load has failed and the load is initialising
C24_WriteFailedLoadGoesOn ==
  \E l \in LoadId :
    /\ loads[l].pc = "init"
    /\ cacheCall.op = "set" /\ cacheCall.fault # "none" /\ ~cacheCall.ok

C26_CacheBeforeNetwork ==
  [][\A l \in LoadId :
       /\ (loads[l].pc \notin DownloadPcs /\ loads'[l].pc \in DownloadPcs) =>
            \/ /\ loads[l].pc = "lookup"
               /\ cacheCall'.op = "get" /\ cacheCall'.version = FFMPEG_VERSION
               /\ cacheCall'.got = Miss
            \/ /\ loads[l].pc = "assets"
               /\ cacheCall'.op = "available" /\ ~cacheCall'.ok
       /\ (loads[l].pc = "lookup" /\ loads'[l].pc # "lookup" /\ cacheCall'.got # Miss) =>
            loads'[l].pc = "init"]_vars

\* a load is initialising from the bundle its lookup has found
C26_InitFromCache ==
  \E l \in LoadId :
    /\ loads[l].pc = "init"
    /\ cacheCall.op = "get" /\ cacheCall.version = FFMPEG_VERSION /\ cacheCall.got # Miss

\* conversions of the application, one at a time, on every kind of device
LadderNext ==
  \/ ConvertImage
  \/ \E c \in Conv : QueueConvStep(c) \/ Deliver(c)
  \/ \E l \in LoadId : QueueLoadStep(l)

LadderSpec == Init /\ [][LadderNext]_vars

\* the filter chains by what they cost: palettegen/paletteuse, the plain
\* chain, the plain chain for one frame
Richness(att) == IF att = "palette" THEN 2 ELSE IF att = "nopalette" THEN 1 ELSE 0
Cheaper(a, b) ==
  \/ a.side < b.side
  \/ a.side = b.side /\ Richness(a.att) < Richness(b.att)

\* the GIF attempt a conversion is at
GifAttemptOf(cv) == [side |-> SideOf(cv), att |-> cv.att]

\* the last n elements of a sequence
Suffix(s, n) == SubSeq(s, Len(s) - n + 1, Len(s))

\* C27: for every device-memory hint the plan is strictly decreasing in cost
\* (size, then filter chain); the plan of a low-memory device is a shorter
\* plan, the tail of the plan of an unconstrained device; and the GIF
\* attempts a conversion runs are attempts of its device's plan, each
\* cheaper than the one before.
C27_PlanDecreases ==
  /\ [](/\ \A dm \in DeviceMemories :
             LET plan == GifPlanFor(dm)
             IN /\ \A i \in 1..(Len(plan) - 1) : Cheaper(plan[i + 1], plan[i])
                /\ IsLowMemory(dm) =>
                     /\ Len(plan) < Len(GifPlanFor(0))
                     /\ plan = Suffix(GifPlanFor(0), Len(plan))
        /\ \A c \in Conv :
             conv[c].att \in GifAtts =>
               \E i \in 1..Len(GifPlanFor(deviceMemory)) :
                 GifPlanFor(deviceMemory)[i] = GifAttemptOf(conv[c]))
  /\ [][\A c \in Conv :
          (conv[c].att \in GifAtts /\ conv'[c].att \in GifAtts
             /\ GifAttemptOf(conv[c])' # GifAttemptOf(conv[c])) =>
            Cheaper(GifAttemptOf(conv[c])', GifAttemptOf(conv[c]))]_vars

\* on an unconstrained device a conversion has come down to the single-frame
\* attempt after an attempt without palette has failed
C27_LadderAtItsEnd ==
  \E c \in Conv :
    /\ deviceMemory = 0
    /\ conv[c].pc = "exec" /\ conv[c].att = "single"
    /\ conv[c].exitCodeGif # 0

\* a failure that carries none of the signatures of a lost engine and is not
\* the user's cancellation
NoSignature(e) ==
  /\ ~IsWorkerTerminated(e) /\ ~IsFfmpegNotLoadedError(e) /\ ~IsLikelyWasmAbort(e)
  /\ ~IsCancelledByUser(e)

\* the attempt that follows an attempt in its ladder's plan: mpeg4 after
\* libx264, the next element of the GIF plan
HasNextAttempt(cv) == cv.att \in {"libx264", "palette", "nopalette"}
NextAttempt(cv) ==
  IF cv.att = "libx264" THEN [side |-> Mp4Side, att |-> "mpeg4"]
  ELSE LET plan == GifPlanFor(deviceMemory)
           i == CHOOSE i \in 1..Len(plan) : plan[i] = GifAttemptOf(cv)
       IN plan[i + 1]

\* the ladder handles an attempt that returned a non-zero exit code
ExitCodeFailure(c) == OnCode(c) /\ conv[c].code # 0
\* the ladder handles an attempt that threw an error without a signature
ThrownFailure(c) == OnThrow(c) /\ NoSignature(conv[c].error)

GoesOnWithoutReload(c) ==
  /\ conv'[c].pc \in {"xstart", "gifDel"}
  /\ GifAttemptOf(conv[c])' = NextAttempt(conv[c])
  /\ UNCHANGED <<ffmpegRef, loadPromiseRef, engines, loads>>

\* C28: an attempt that is not the last of its ladder and fails without a
\* crash, not-loaded or stuck signature (a non-zero exit code, or a thrown
\* error of another kind) is followed by the next attempt of the plan, and
\* the step neither terminates nor reloads the engine.
C28_NextAttemptWithoutReload ==
  [][\A c \in Conv :
       ((ExitCodeFailure(c) \/ ThrownFailure(c)) /\ HasNextAttempt(conv[c])) =>
         GoesOnWithoutReload(c)]_vars

\* the first palette attempt of an unconstrained device threw an error
\* without a signature and the conversion is at the single-frame attempt
C28_SkippedToSingleFrame ==
  \E c \in Conv :
    /\ deviceMemory = 0
    /\ conv[c].failedAtt = "palette" /\ conv[c].failedIdx = 1
    /\ NoSignature(conv[c].failedErr)
    /\ conv[c].att = "single"

\* an attempt's command is issued to the engine
AttemptStarts(c) == ExecStart(c) /\ conv'[c].pc = "exec"

\* C29: when the command of an attempt is issued, its output file is not in
\* the engine's file system, so that the file the attempt's check reads can
\* only have been written by the attempt itself.
C29_OutputRemovedBeforeAttempt ==
  [][\A c \in Conv : AttemptStarts(c) => OutFile(conv[c]) = "absent"]_vars

\* the mpeg4 run is in progress on the engine that libx264 ran on, and the
\* out.mp4 that libx264 left is still there
C29_Mp4LeftoverDuringMpeg4 ==
  \E c \in Conv :
    /\ conv[c].att = "mpeg4" /\ conv[c].pc = "exec" /\ conv[c].promise = "running"
    /\ engines[conv[c].eng].mp4Out = "empty"

\* a step builds the result of a format from the file it has read
BuildsMp4Result(c) == ~conv[c].mp4Result /\ conv'[c].mp4Result
BuildsGifResult(c) == conv[c].gifResult = "null" /\ conv'[c].gifResult # "null"

\* C30: the result of a format is built only from a file that was read back
\* non-empty: an MP4 or a GIF attempt that ended with exit code 0 and an
\* empty output file gives no result for its format.
C30_ResultOnlyIfNonEmpty ==
  [][\A c \in Conv :
       /\ BuildsMp4Result(c) => engines[conv[c].eng].mp4Out = "full"
       /\ BuildsGifResult(c) => engines[conv[c].eng].gifOut = "full"]_vars

\* convertImage has returned a GIF result built from an empty out.gif
C30_EmptyGifReturned ==
  \E c \in Conv : conv[c].pc = "ok" /\ conv[c].mp4Result /\ conv[c].gifResult = "empty"

\* the last attempt of each ladder: mpeg4 (first run or after a reload) for
\* the MP4, the single-frame GIF at the smallest size for the GIF
LastAttempts == {"mpeg4", "mpeg4r", "single"}

\* a conversion that is in one of its ladders gives up with an error other
\* than the user's cancellation
LadderReportsFailure(c) ==
  /\ conv[c].att \in Mp4Atts \cup GifAtts
  /\ conv[c].pc # "fail" /\ conv'[c].pc = "fail"
  /\ ~IsCancelledByUser(conv'[c].error)

\* C31: the plan of the GIF ladder ends with the single-frame attempt at the
\* smallest size, and a ladder gives up only in the step that handles the
\* exit code or the error of its last attempt.
C31_FailureOnlyAfterLastAttempt ==
  /\ [](\A dm \in DeviceMemories :
          LET plan == GifPlanFor(dm)
          IN /\ plan[Len(plan)] = [side |-> SingleFrameSide, att |-> "single"]
             /\ \A i \in 1..(Len(plan) - 1) : plan[i].side > SingleFrameSide)
  /\ [][\A c \in Conv :
          LadderReportsFailure(c) =>
            /\ conv[c].att \in LastAttempts
            /\ conv[c].pc \in {"acode", "athrow"}]_vars

\* the MP4 ladder has given up at libx264 on an error of the engine: mpeg4
\* was never run
C31_Mp4FailedBeforeMpeg4 ==
  \E c \in Conv :
    /\ conv[c].pc = "fail" /\ conv[c].att = "libx264"
    /\ conv[c].failedAtt = "libx264"
    /\ conv[c].error \in {ErrWasmAbort, ErrExec}

\* C32: every FFmpeg instance the program holds (through ffmpegRef, a load in
\* flight or a conversion) carries exactly one progress/log subscription, and
\* the attached flag is set exactly while the manager holds an instance, so
\* that the instance a reload creates gets its own subscription.
C32_OneSubscriptionPerInstance ==
  /\ \A e \in Eng : EngineReferenced(e) => engines[e].listeners = 1
  /\ didAttachListenersRef <=> (ffmpegRef # 0)

\* a GIF attempt runs on the instance that the ladder's reload created, and
\* that instance has its subscription
C32_ReloadedInstanceSubscribed ==
  \E c \in Conv :
    /\ conv[c].site = "gif" /\ conv[c].pc = "exec" /\ conv[c].promise = "running"
    /\ conv[c].eng = ffmpegRef
    /\ engines[ffmpegRef].loaded /\ engines[ffmpegRef].listeners = 1

\* C33: the isLoaded signal is true only while the manager holds an instance
\* that is loaded.
C33_ReadyFlagAgreesWithHandle ==
  isLoaded => (ffmpegRef # 0 /\ engines[ffmpegRef].loaded)

\* after cleanup() nothing is running, the manager holds no instance, and
\* isLoaded is still true
C33_ReadyWithoutEngine ==
  /\ isLoaded /\ ffmpegRef = 0 /\ loadPromiseRef = 0
  /\ \A c \in Conv : conv[c].pc = "idle"
  /\ \A l \in LoadId : loads[l].pc = "free"

\* the blob URLs a conversion has created (createObjectURL for the MP4 and for
\* the GIF) and still holds in its local results; convertImage has no
\* revokeObjectURL, so a URL it created is live until the caller that
\* receives the results revokes it
HoldsOutputUrl(cv) == cv.mp4Result \/ cv.gifResult # "null"

\* C34: a conversion that ends by throwing holds no blob URL: every output
\* URL it created has been revoked or is returned to the caller, which is the
\* only one that can revoke it afterwards.
C34_NoOutputUrlLostOnFailure ==
  \A c \in Conv : conv[c].pc = "err" => ~HoldsOutputUrl(conv[c])

\* the GIF ladder is exhausted after the MP4 URL was created: convertImage
\* has thrown and the URL is out of reach
C34_Mp4UrlLeaked ==
  \E c \in Conv :
    /\ conv[c].pc = "err" /\ conv[c].mp4Result
    /\ conv[c].error \in {ErrGifExit, ErrGifExitOom}

\* processItem resumes after its validation or its conversion and writes the
\* item's status (and, when processItem returns, the loop takes its next turn)
LateUpdate(k) == ValidateDone(k) \/ ConvDone(k)

\* the batch hook used to add files, run, clear everything and resume
ClearAllNext ==
  \/ AddFiles \/ ProcessQueue \/ ResumeQueue \/ ClearAll
  \/ \E k \in Loop : ValidateDone(k) \/ ConvDone(k)
  \/ \E c \in Conv : QueueConvStep(c)
  \/ \E l \in LoadId : QueueLoadStep(l)

ClearAllSpec == QueueInit /\ [][ClearAllNext]_vars

\* C35: clearAll() leaves the queue empty and paused, and a status update of
\* processItem for an item that is no longer in the queue (cleared or removed
\* while it was in flight) does not create the item again: the queue holds
\* the same number of items after it, none of them that item, and an empty
\* queue stays empty.
C35_ClearAllStaysEmpty ==
  [][/\ ClearAll => (items' = <<>> /\ isPaused')
     /\ \A k \in Loop :
          (LateUpdate(k) /\ ~HasItem(items, loops[k].item)) =>
            /\ ~HasItem(items', loops[k].item)
            /\ Len(items') = Len(items)]_vars

\* the queue was cleared while an item was converting, and the conversion has
\* now returned its results to processItem
C35_ClearedWhileInFlight ==
  /\ items = <<>> /\ isPaused
  /\ \E k \in Loop :
       /\ loops[k].pc = "converting"
       /\ conv[loops[k].conv].pc = "ok"

\* ============================================================================
\* lib/preprocessing/workerPreprocess.ts: the worker client, one action per
\* handler and per segment of preprocessFileInWorker between its awaits
\* ============================================================================
PreprocessOnly == UNCHANGED <<engineVars, queueVars, progressVars, cacheVars>>

\* a settled call: the promise of the async function, and its finally
SettledRequest(rq, outcome, err) ==
  [rq EXCEPT !.pc = "done", !.outcome = outcome, !.error = err, !.listener = FALSE]

\* resetWorker with the rejections left out: the map keeps its entries
ResetWorkerKeepPending(wks, reqs, err) ==
  /\ workerRef' = 0
  /\ workers' = [w \in WorkerId |-> IF w = workerRef THEN "terminated" ELSE wks[w]]
  /\ pending' = pending
  /\ requests' = reqs

\* resetWorker(err), applied to the workers wks and the calls reqs
ResetWorker(wks, reqs, err) ==
  /\ workerRef' = 0
  /\ workers' = [w \in WorkerId |-> IF w = workerRef THEN "terminated" ELSE wks[w]]
  /\ pending' = {}
  /\ requests' = [r \in ReqId |->
                    IF r \in pending THEN SettledRequest(reqs[r], "rejected", err)
                    ELSE reqs[r]]

FreshWorker == CHOOSE w \in WorkerId : workers[w] = NoWorker /\ \A v \in 1..(w - 1) : workers[v] # NoWorker
CanGetWorker == workerRef # 0 \/ \E w \in WorkerId : workers[w] = NoWorker
\* getWorker(): the worker it returns, and the workers after it
GotWorker == IF workerRef # 0 THEN workerRef ELSE FreshWorker
WorkersAfterGet == IF workerRef # 0 THEN workers ELSE [workers EXCEPT ![FreshWorker] = "alive"]

\* preprocessFileInWorker up to its first await; a call whose signal has
\* already fired throws before it takes an id
PreprocessFileInWorker ==
  \E preAborted \in BOOLEAN :
    IF preAborted THEN UNCHANGED vars
    ELSE /\ nextId \in ReqId
         /\ CanGetWorker
         /\ nextId' = nextId + 1
         /\ workerRef' = GotWorker
         /\ workers' = WorkersAfterGet
         /\ requests' = [requests EXCEPT ![nextId] =
                           [NoRequest EXCEPT !.pc = "buffer", !.worker = GotWorker,
                                             !.listener = TRUE]]
         /\ UNCHANGED <<pending, inbox>>
         /\ PreprocessOnly

\* file.arrayBuffer() settles: the aborted check, then the request is
\* registered and posted to the captured worker
ArrayBufferDone(r) ==
  /\ requests[r].pc = "buffer"
  /\ \E res \in {"ok", "readFails", "postThrows"} :
       IF res = "readFails"
       THEN /\ requests' = [requests EXCEPT ![r] = SettledRequest(@, "rejected", ErrPrepRead)]
            /\ UNCHANGED pending
       ELSE IF requests[r].aborted
       THEN /\ requests' = [requests EXCEPT ![r] = SettledRequest(@, "rejected", ErrPrepCancelled)]
            /\ UNCHANGED pending
       ELSE IF res = "postThrows"
       THEN /\ requests' = [requests EXCEPT ![r] = SettledRequest(@, "rejected", ErrPrepPost)]
            /\ UNCHANGED pending
       ELSE /\ requests' = [requests EXCEPT ![r].pc = "waiting",
                                            ![r].posted = (workers[requests[r].worker] = "alive")]
            /\ pending' = pending \cup {r}
  /\ UNCHANGED <<workerRef, nextId, workers, inbox>>
  /\ PreprocessOnly

\* the worker finishes the job of r and posts its result
WorkerResult(r) ==
  /\ requests[r].posted
  /\ ~requests[r].answered
  /\ workers[requests[r].worker] = "alive"
  /\ \E ok \in BOOLEAN : inbox' = inbox \cup {[id |-> r, ok |-> ok]}
  /\ requests' = [requests EXCEPT ![r].answered = TRUE]
  /\ UNCHANGED <<workerRef, pending, nextId, workers>>
  /\ PreprocessOnly

\* worker.onmessage for a result message, which may arrive after the worker
\* was terminated
OnMessage(m) ==
  /\ m \in inbox
  /\ inbox' = inbox \ {m}
  /\ IF m.id \notin pending
     THEN UNCHANGED <<pending, requests>>
     ELSE /\ pending' = pending \ {m.id}
          /\ requests' = [requests EXCEPT ![m.id] =
                            IF m.ok THEN SettledRequest(@, "resolved", "none")
                            ELSE SettledRequest(@, "rejected", ErrPrepWorker)]
  /\ UNCHANGED <<workerRef, nextId, workers>>
  /\ PreprocessOnly

\* the abort signal of call r fires while its listener is attached: onAbort
OnAbort(r) ==
  /\ requests[r].listener
  /\ ~requests[r].aborted
  /\ ResetWorker(workers, [requests EXCEPT ![r].aborted = TRUE], ErrPrepCancelled)
  /\ UNCHANGED <<nextId, inbox>>
  /\ PreprocessOnly

\* worker.onerror
WorkerOnError ==
  /\ \E w \in WorkerId : workers[w] = "alive"
  /\ ResetWorker(workers, requests, ErrPrepCrashed)
  /\ UNCHANGED <<nextId, inbox>>
  /\ PreprocessOnly

CleanupPreprocessWorker ==
  /\ ~(workerRef = 0 /\ pending = {})
  /\ ResetWorker(workers, requests, ErrPrepTerminated)
  /\ UNCHANGED <<nextId, inbox>>
  /\ PreprocessOnly

WarmupPreprocessWorker ==
  /\ CanGetWorker
  /\ workerRef = 0
  /\ workerRef' = GotWorker
  /\ workers' = WorkersAfterGet
  /\ UNCHANGED <<pending, nextId, requests, inbox>>
  /\ PreprocessOnly

PreprocessNext ==
  \/ PreprocessFileInWorker
  \/ \E r \in ReqId : ArrayBufferDone(r) \/ WorkerResult(r) \/ OnAbort(r)
  \/ \E m \in inbox : OnMessage(m)
  \/ WorkerOnError
  \/ CleanupPreprocessWorker
  \/ WarmupPreprocessWorker

\* file.arrayBuffer() always settles
\* the worker client does not read the device memory
PreprocessInit == Init /\ deviceMemory = 4

PreprocessSpec ==
  PreprocessInit /\ [][PreprocessNext]_vars /\ WF_vars(\E r \in ReqId : ArrayBufferDone(r))

\* C36: when the signal of a call fires while it is preprocessing, the worker
\* is terminated and no request stays registered; the call's promise is
\* rejected at once if it was registered and at the aborted check if it was
\* still reading the file, and no response that arrives later resolves it
C36_CancelRejectsAndTerminates ==
  /\ [](\A r \in ReqId : requests[r].aborted =>
          /\ requests[r].outcome # "resolved"
          /\ r \notin pending
          /\ requests[r].pc \in {"buffer", "done"})
  /\ [][\A r \in ReqId : OnAbort(r) =>
          /\ workerRef' = 0
          /\ \A w \in WorkerId : workers'[w] # "alive"
          /\ pending' = {}
          /\ requests[r].pc = "waiting" =>
               (requests'[r].outcome = "rejected" /\ requests'[r].error = ErrPrepCancelled)]_vars
  /\ \A r \in ReqId :
       requests[r].aborted ~> (requests[r].outcome = "rejected")

\* a call cancelled while it waited, whose response arrived late and was dropped
C36_LateResponseDropped ==
  \E r \in ReqId :
    /\ requests[r].aborted
    /\ requests[r].outcome = "rejected"
    /\ requests[r].error = ErrPrepCancelled
    /\ requests[r].answered
    /\ \A m \in inbox : m.id # r

\* the instances that have a worker
RunningEngines == {e \in Eng : engines[e].worker}

\* C37: every instance that has a worker is the one ffmpegRef holds, so at
\* most one instance is running, also after a cleanup() or a kill during a load.
C37_OnlyReferencedEngineRuns == \A e \in RunningEngines : e = ffmpegRef

\* a superseded load has started the worker of its instance, which the
\* manager does not hold, while a conversion is under way
C37_OrphanLeftRunning ==
  /\ \E e \in RunningEngines : e # ffmpegRef
  /\ \E c \in Conv : conv[c].pc # "idle"

\* ---------------------------------------------------------------- cancellation
\* one caller that converts and cancels, on a device that reports 2 GB
CancelNext ==
  \/ ConvertImage \/ CancelConversion
  \/ \E c \in Conv : ConvStep(c) \/ Deliver(c)
  \/ \E l \in LoadId : QueueLoadStep(l)

CancelSpec == QueueInit /\ [][CancelNext]_vars

\* execWithHardTimeout is entered by a conversion whose signal has fired
RefusedStart(c) == ExecStart(c) /\ conv[c].aborted

\* C38: once the signal of a conversion has fired, every execWithHardTimeout
\* it enters throws the cancelled error without calling exec, whatever the
\* attempt; a command of such a conversion that is still unsettled was
\* started before the signal fired and has been killed by it.
C38_NoCommandAfterCancel ==
  /\ [](\A c \in Conv : (conv[c].pc = "exec" /\ conv[c].aborted) => conv[c].killed)
  /\ [][\A c \in Conv :
          /\ AttemptStarts(c) => ~conv[c].aborted
          /\ RefusedStart(c) =>
               /\ conv'[c].pc = "athrow" /\ conv'[c].error = ErrCancelled
               /\ conv'[c].promise = "none" /\ ~conv'[c].timer /\ ~conv'[c].listener
               /\ conv'[c].issued = conv[c].issued]_vars

\* the single-frame fallback of a cancelled conversion has been refused
C38_FallbackRefused ==
  \E c \in Conv :
    /\ conv[c].aborted /\ conv[c].att = "single"
    /\ conv[c].pc = "athrow" /\ conv[c].error = ErrCancelled

\* C39: a conversion that was cancelled and had produced its MP4 does not
\* reject (it resolves with the MP4, and with gif = null unless the GIF had
\* been produced as well).
C39_CancelledKeepsMp4 ==
  \A c \in Conv : (conv[c].aborted /\ conv[c].mp4Result) => conv[c].pc # "err"

\* a conversion cancelled after its MP4 was read has rejected with the error
\* of the GIF ladder
C39_Mp4LostOnCancel ==
  \E c \in Conv :
    /\ conv[c].pc = "err" /\ conv[c].aborted /\ conv[c].mp4Result
    /\ conv[c].error \in {ErrGifExit, ErrGifExitOom}

\* a command settles that was neither killed by its timer nor cancelled
SettlesNormally(c) == ExecSettle(c) /\ ~conv[c].killed /\ ~conv[c].aborted

\* C40: a command that settles before its timeout and without a cancel leaves
\* nothing scheduled: the timer and the abort listener are cleared and no
\* poller of the call is left.
C40_NothingLeftScheduled ==
  [][\A c \in Conv :
       SettlesNormally(c) =>
         /\ ~conv'[c].timer /\ ~conv'[c].listener
         /\ ~conv'[c].poller /\ ~conv'[c].stalePoller]_vars

\* a conversion has returned its MP4 and its GIF with no kill and no cancel,
\* and a poller of its commands is still scheduled
C40_PollerLeftAfterSuccess ==
  \E c \in Conv :
    /\ conv[c].pc = "ok" /\ conv[c].mp4Result /\ conv[c].gifResult # "null"
    /\ ~conv[c].aborted /\ conv[c].failedAtt = "none"
    /\ conv[c].stalePoller /\ ~conv[c].timer /\ ~conv[c].listener

====
